---- MODULE Spec2Model ----
(***************************************************************************)
(* BackendBuddy: the waiting-room admission controller                     *)
(* (backend/queue_manager.py, class QueueManager and its global instance)  *)
(* and the reverse-proxy handler that gates requests through it            *)
(* (backend/main.py, proxy_to_target).                                     *)
(*                                                                         *)
(* Every QueueManager method is a pure operator from the object (a record  *)
(* named self, as in the source) to the object after the call, the         *)
(* returned dict and whether _try_notify was called.  The mutating         *)
(* callers (the async endpoints, the proxy handler and the reaper task)    *)
(* all run on the one event loop and never await inside a queue            *)
(* operation, so each call is one atomic action.                           *)
(*                                                                         *)
(* Spec is the admission controller under arbitrary calls of its public    *)
(* methods; SpecProxy is the proxy handler, which makes those calls for    *)
(* the requests it receives.                                               *)
(***************************************************************************)
EXTENDS Integers, Sequences, FiniteSets

VARIABLES
    queue_manager,  \* the global QueueManager instance (queue_manager.py:319)
    now,            \* the wall clock read by datetime.utcnow(), in seconds
    pre,            \* history: queue_manager as it was before the last call
    last,           \* history: the last call, its arguments and what it returned
    priority_admitted,  \* history: the active sessions admitted by localhost priority
    traffic_monitor,    \* the global TrafficMonitor instance (traffic_monitor.py:224)
    threads,            \* where the event loop and the pool threads are in its methods
    completed,          \* history: log_request calls recorded since the last clear
    completed_errors,   \* history: those among them with a status of 400 or more
    connections,        \* the lengths of log_connections, queue_connections and
                        \* traffic_connections (main.py:159-166)
    accepting,          \* per channel, the handlers suspended in websocket.accept()
    closed,             \* per channel, the sockets in the list whose peer is gone
    server_manager,     \* the global ServerManager instance (server_manager.py:463)
    network_manager,    \* the global NetworkManager instance (network_manager.py:331)
    processes           \* the operating system: the processes spawned, those alive,
                        \* the _stream_logs threads still reading, and the port
                        \* each running tunnel agent forwards to

vars == <<queue_manager, now, pre, last, priority_admitted,
          traffic_monitor, threads, completed, completed_errors,
          connections, accepting, closed,
          server_manager, network_manager, processes>>

\* the variables of each part, and what an action of one part leaves alone
queue_vars == <<queue_manager, now, pre, priority_admitted>>
traffic_vars == <<traffic_monitor, threads, completed, completed_errors>>
websocket_vars == <<connections, accepting, closed>>
server_vars == <<server_manager, network_manager, processes>>
outside_queue == <<traffic_vars, websocket_vars, server_vars>>
outside_traffic == <<queue_vars, websocket_vars, server_vars>>
outside_websocket == <<queue_vars, traffic_vars, server_vars>>
outside_server == <<queue_vars, traffic_vars, websocket_vars>>

(***************************************************************************)
(* Bounds of the model.                                                    *)
(***************************************************************************)
MaxCap == 2

\* The session strings clients present as cookie or session_id.
Sessions == {"S1", "S2", "S3"}

\* Python's falsy session_id (None or the empty string).
NoSession == ""

\* QueueManager.heartbeat_timeout as set by the constructor, in seconds.
DefaultHeartbeatTimeout == 30

\* The instants at which the clock is read: the start, and the first instant
\* at which an entry last refreshed at the start has timed out.
Instants == {0, DefaultHeartbeatTimeout + 1}

\* max_concurrent values callers pass to configure (0 is coerced to 1).
CapInputs == 0..MaxCap

(***************************************************************************)
(* QueueUser and the list helpers.                                         *)
(***************************************************************************)
QueueUser(session_id, joined_at, last_heartbeat, position, is_active, is_localhost) ==
    [session_id |-> session_id, joined_at |-> joined_at,
     last_heartbeat |-> last_heartbeat, position |-> position,
     is_active |-> is_active, is_localhost |-> is_localhost]

\* [u.session_id for u in users], as a set
Ids(users) == {users[i].session_id : i \in 1..Len(users)}

\* index of the first entry of users with this session_id, 0 if there is none
IndexOf(users, session_id) ==
    IF \E i \in 1..Len(users) : users[i].session_id = session_id
    THEN CHOOSE i \in 1..Len(users) :
            /\ users[i].session_id = session_id
            /\ \A j \in 1..(i - 1) : users[j].session_id # session_id
    ELSE 0

\* list.pop(i), 1-based
Pop(users, i) == SubSeq(users, 1, i - 1) \o SubSeq(users, i + 1, Len(users))

Max(a, b) == IF a >= b THEN a ELSE b

\* Optional values: None is the empty set, a present value a singleton
None == {}
Some(v) == {v}
Get(opt) == CHOOSE v \in opt : TRUE

\* a plausible slip: the active list is never consulted
_is_user_active_never(self, session_id) == FALSE

_is_user_active(self, session_id) ==
    \E i \in 1..Len(self.active_users) : self.active_users[i].session_id = session_id

\* a plausible slip: the waiting list is never consulted
WaitingIndex_never(self, session_id) == 0

\* join_queue's scan of waiting_users: the index of the session's entry, 0 if none
WaitingIndex(self, session_id) == IndexOf(self.waiting_users, session_id)

\* a plausible slip: localhost priority granted only while the pool has room
LocalhostPriority_capped(self, is_localhost) ==
    is_localhost /\ self.prioritize_localhost
        /\ Len(self.active_users) < self.max_concurrent

\* join_queue's test for the localhost priority branch
LocalhostPriority(self, is_localhost) == is_localhost /\ self.prioritize_localhost

\* a plausible slip: <= for <
ActivePoolHasRoom_offbyone(self) == Len(self.active_users) <= self.max_concurrent

\* join_queue's test for room in the active pool
ActivePoolHasRoom(self) == Len(self.active_users) < self.max_concurrent

\* a plausible slip: positions are left as they were
_update_positions_stale(self) == self

_update_positions(self) ==
    [self EXCEPT !.waiting_users =
        [i \in 1..Len(self.waiting_users) |->
            [self.waiting_users[i] EXCEPT !.position = i]]]

\* a plausible slip: pop() for pop(0), promoting the most recent arrival
PromoteHead_last(self) ==
    LET n == Len(self.waiting_users)
        next_user == [self.waiting_users[n] EXCEPT !.is_active = TRUE, !.position = 0]
    IN  [self EXCEPT !.waiting_users = SubSeq(self.waiting_users, 1, n - 1),
                     !.active_users = Append(self.active_users, next_user)]

\* a plausible slip: a promotion counts as a sign of life
PromoteHead_refreshed(self) ==
    LET next_user == [Head(self.waiting_users) EXCEPT !.is_active = TRUE, !.position = 0,
                                                      !.last_heartbeat = now]
    IN  [self EXCEPT !.waiting_users = Tail(self.waiting_users),
                     !.active_users = Append(self.active_users, next_user)]

\* one iteration of the while loop of _promote_waiting_users: waiting_users.pop(0)
PromoteHead(self) ==
    LET next_user == [Head(self.waiting_users) EXCEPT !.is_active = TRUE, !.position = 0]
    IN  [self EXCEPT !.waiting_users = Tail(self.waiting_users),
                     !.active_users = Append(self.active_users, next_user)]

\* a plausible slip: the loop ignores the cap
PromoteCondition_nocap(self) == Len(self.waiting_users) > 0

\* the condition of the while loop of _promote_waiting_users
PromoteCondition(self) ==
    Len(self.active_users) < self.max_concurrent /\ Len(self.waiting_users) > 0

RECURSIVE PromoteLoop(_)
PromoteLoop(self) ==
    IF PromoteCondition(self) THEN PromoteLoop(PromoteHead(self)) ELSE self

\* a plausible slip: nobody is promoted
_promote_waiting_users_none(self) == _update_positions(self)

_promote_waiting_users(self) == _update_positions(PromoteLoop(self))

(***************************************************************************)
(* The public methods.  Each returns [self, ret, notify].                  *)
(***************************************************************************)
Out(self, ret, notify) == [self |-> self, ret |-> ret, notify |-> notify]

\* a plausible slip: a lowered cap is enforced at once, on the active list
configure_trims(self, max_concurrent, prioritize_localhost) ==
    Out([self EXCEPT !.max_concurrent = Max(1, max_concurrent),
                     !.prioritize_localhost = prioritize_localhost,
                     !.active_users =
                        SubSeq(@, 1, IF Len(@) < Max(1, max_concurrent)
                                     THEN Len(@) ELSE Max(1, max_concurrent))],
        [none |-> TRUE], FALSE)

configure(self, max_concurrent, prioritize_localhost) ==
    Out([self EXCEPT !.max_concurrent = Max(1, max_concurrent),
                     !.prioritize_localhost = prioritize_localhost],
        [none |-> TRUE], FALSE)

\* uuid is the value uuid.uuid4() yields if the call needs one; t is utcnow().
\* The message of the last branch stands for "Added to queue at position N",
\* N being the position field of the same dict.
join_queue(self, session_id_arg, is_localhost, uuid, t) ==
    LET session_id == IF session_id_arg = NoSession THEN uuid ELSE session_id_arg
        w == WaitingIndex(self, session_id)
        position == Len(self.waiting_users) + 1
    IN  IF _is_user_active(self, session_id)
        THEN Out(self, [session_id |-> session_id, status |-> "active",
                        position |-> 0, message |-> "Already active"], FALSE)
        ELSE IF w # 0
        THEN Out(self, [session_id |-> session_id, status |-> "waiting",
                        position |-> self.waiting_users[w].position,
                        queue_length |-> Len(self.waiting_users),
                        message |-> "Already in queue"], FALSE)
        ELSE IF LocalhostPriority(self, is_localhost)
        THEN Out([self EXCEPT !.active_users =
                     Append(@, QueueUser(session_id, t, t, 0, TRUE, TRUE))],
                 [session_id |-> session_id, status |-> "active", position |-> 0,
                  message |-> "Localhost priority access granted"], TRUE)
        ELSE IF ActivePoolHasRoom(self)
        THEN Out([self EXCEPT !.active_users =
                     Append(@, QueueUser(session_id, t, t, 0, TRUE, is_localhost))],
                 [session_id |-> session_id, status |-> "active", position |-> 0,
                  message |-> "Access granted"], TRUE)
        ELSE Out(_update_positions(
                    [self EXCEPT !.waiting_users =
                        Append(@, QueueUser(session_id, t, t, position, FALSE, is_localhost))]),
                 [session_id |-> session_id, status |-> "waiting",
                  position |-> position,
                  queue_length |-> Len(self.waiting_users) + 1,
                  message |-> "Added to queue"], TRUE)

\* a plausible slip: the not-found path falls through to the promotion
leave_queue_fallthrough(self, session_id) ==
    LET a == IndexOf(self.active_users, session_id)
        w == IndexOf(self.waiting_users, session_id)
    IN  IF a # 0
        THEN Out(_promote_waiting_users(
                    [self EXCEPT !.active_users = Pop(@, a)]),
                 [success |-> TRUE, message |-> "Left active session"], TRUE)
        ELSE IF w # 0
        THEN Out(_update_positions(
                    [self EXCEPT !.waiting_users = Pop(@, w)]),
                 [success |-> TRUE, message |-> "Removed from queue"], TRUE)
        ELSE Out(_promote_waiting_users(self),
                 [success |-> FALSE, message |-> "Session not found"],FALSE)

leave_queue(self, session_id) ==
    LET a == IndexOf(self.active_users, session_id)
        w == IndexOf(self.waiting_users, session_id)
    IN  IF a # 0
        THEN Out(_promote_waiting_users(
                    [self EXCEPT !.active_users = Pop(@, a)]),
                 [success |-> TRUE, message |-> "Left active session"], TRUE)
        ELSE IF w # 0
        THEN Out(_update_positions(
                    [self EXCEPT !.waiting_users = Pop(@, w)]),
                 [success |-> TRUE, message |-> "Removed from queue"], TRUE)
        ELSE Out(self, [success |-> FALSE, message |-> "Session not found"], FALSE)

\* a plausible slip: a heartbeat also fills the free slots of the active pool
heartbeat_promotes(self, session_id, t) ==
    LET a == IndexOf(self.active_users, session_id)
        w == IndexOf(self.waiting_users, session_id)
    IN  IF a # 0
        THEN Out(_promote_waiting_users(
                    [self EXCEPT !.active_users[a].last_heartbeat = t]),
                 [success |-> TRUE, status |-> "active", position |-> 0], FALSE)
        ELSE IF w # 0
        THEN Out(_promote_waiting_users(
                    [self EXCEPT !.waiting_users[w].last_heartbeat = t]),
                 [success |-> TRUE, status |-> "waiting",
                  position |-> self.waiting_users[w].position,
                  queue_length |-> Len(self.waiting_users)], FALSE)
        ELSE Out(self, [success |-> FALSE, message |-> "Session not found"], FALSE)

heartbeat(self, session_id, t) ==
    LET a == IndexOf(self.active_users, session_id)
        w == IndexOf(self.waiting_users, session_id)
    IN  IF a # 0
        THEN Out([self EXCEPT !.active_users[a].last_heartbeat = t],
                 [success |-> TRUE, status |-> "active", position |-> 0], FALSE)
        ELSE IF w # 0
        THEN Out([self EXCEPT !.waiting_users[w].last_heartbeat = t],
                 [success |-> TRUE, status |-> "waiting",
                  position |-> self.waiting_users[w].position,
                  queue_length |-> Len(self.waiting_users)], FALSE)
        ELSE Out(self, [success |-> FALSE, message |-> "Session not found"], FALSE)

\* a plausible slip: <= for <, evicting an entry exactly heartbeat_timeout old
TimedOut_inclusive(user, timeout_threshold) == user.last_heartbeat <= timeout_threshold

\* a plausible slip: nobody ever times out
TimedOut_never(user, timeout_threshold) == FALSE

\* check_timeouts' test of one entry
TimedOut(user, timeout_threshold) == user.last_heartbeat < timeout_threshold

check_timeouts(self, t) ==
    LET timeout_threshold == t - self.heartbeat_timeout
        Alive(user) == ~TimedOut(user, timeout_threshold)
        timed_out_active ==
            \E i \in 1..Len(self.active_users) : ~Alive(self.active_users[i])
        timed_out_waiting ==
            \E i \in 1..Len(self.waiting_users) : ~Alive(self.waiting_users[i])
        removed == [self EXCEPT !.active_users = SelectSeq(@, Alive),
                                !.waiting_users = SelectSeq(@, Alive)]
    IN  IF timed_out_active \/ timed_out_waiting
        THEN Out(_promote_waiting_users(_update_positions(removed)),
                 [none |-> TRUE], TRUE)
        ELSE Out(self, [none |-> TRUE], FALSE)

(***************************************************************************)
(* The traffic recorder, traffic_monitor.py.  log_request is called by the *)
(* HTTP middleware on the event loop; clear and the read methods are       *)
(* called by the synchronous endpoints, which FastAPI runs on threads of   *)
(* its pool.  The statements a method runs while it holds _lock are        *)
(* separate steps, so that what the lock excludes is visible.              *)
(***************************************************************************)
\* TrafficMonitor.max_history (500 in the source), scaled down
MaxHistory == 3

\* the cap get_traffic_requests puts on count (200 in the source), scaled down
RecentCap == 2

\* log_request calls the model follows between two clears
MaxRequests == 4

\* the event loop, and the pool threads that run the synchronous endpoints
Workers == {"worker1", "worker2"}
Threads == {"loop"} \cup Workers

\* a thread that is in no method of the recorder
Idle == [pc |-> "idle"]

\* threading.Lock(), not held
Unlocked == "unlocked"

\* request.url.path, cut into pieces at the points where the prefixes end
TrafficApiPrefix == <<"/api", "/traffic">>
TrafficWsPrefix == <<"/ws", "/traffic">>
Paths ==
    {<<"/api", "/traffic", "/metrics">>, <<"/api", "/traffic", "/clear">>,
     <<"/ws", "/traffic">>, <<"/api", "/config">>, <<"/preview">>}

\* str.startswith
StartsWith(path, prefix) ==
    /\ Len(path) >= Len(prefix)
    /\ SubSeq(path, 1, Len(prefix)) = prefix

Min(a, b) == IF a <= b THEN a ELSE b

\* reversed(items)
Reversed(items) == [i \in 1..Len(items) |-> items[Len(items) + 1 - i]]

\* items[start:], with Python's reading of a negative start
SliceFrom(items, start) ==
    LET first == IF start < 0 THEN Max(Len(items) + start, 0)
                 ELSE Min(start, Len(items))
    IN  SubSeq(items, first + 1, Len(items))

\* deque(maxlen=...).append
DequeAppend(items, x, maxlen) ==
    IF Len(items) >= maxlen THEN Append(Tail(items), x) ELSE Append(items, x)

\* TrafficMonitor.__init__
TrafficMonitor ==
    [max_history |-> MaxHistory, request_history |-> <<>>,
     endpoint_stats |-> <<>>, total_requests |-> 0, total_errors |-> 0,
     _lock |-> Unlocked]

RequestLog(path, status) == [path |-> path, status |-> status]

\* response.status_code: a success and an error
Statuses == {200, 500}

\* if status >= 400
IsError(status) == status >= 400

\* endpoint_stats, a dict, is a sequence of entries in the order the keys were
\* inserted; the key is the path (the model follows one method)
StatsIndex(stats, path) ==
    IF \E i \in 1..Len(stats) : stats[i].path = path
    THEN CHOOSE i \in 1..Len(stats) : stats[i].path = path
    ELSE 0

\* if endpoint_key not in self.endpoint_stats: the entry is made
WithEntry(stats, path) ==
    IF StatsIndex(stats, path) = 0
    THEN Append(stats, [path |-> path, count |-> 0, errors |-> 0])
    ELSE stats

\* stats["count"] += 1 and, for an error, stats["errors"] += 1
Counted(stats, path, status) ==
    [WithEntry(stats, path) EXCEPT
        ![StatsIndex(WithEntry(stats, path), path)] =
            [@ EXCEPT !.count = @ + 1,
                      !.errors = IF IsError(status) THEN @ + 1 ELSE @]]

\* the sums of a field over the entries of endpoint_stats
RECURSIVE SumCount(_)
SumCount(stats) ==
    IF stats = <<>> THEN 0 ELSE Head(stats).count + SumCount(Tail(stats))

RECURSIVE SumErrors(_)
SumErrors(stats) ==
    IF stats = <<>> THEN 0 ELSE Head(stats).errors + SumErrors(Tail(stats))

\* a plausible slip: only the API prefix is skipped
ShouldLog_apionly(path) == ~StartsWith(path, TrafficApiPrefix)

\* the middleware's test before it calls log_request
ShouldLog(path) ==
    ~StartsWith(path, TrafficApiPrefix) /\ ~StartsWith(path, TrafficWsPrefix)

\* a plausible slip: the methods run without the lock
CanAcquire_unlocked(self) == TRUE

\* with self._lock: the thread goes on once nobody holds the lock
CanAcquire(self) == self._lock = Unlocked

get_recent_requests(self, count) ==
    Reversed(SliceFrom(self.request_history, 0 - count))

\* GET /api/traffic/requests
get_traffic_requests(self, count) == get_recent_requests(self, Min(count, RecentCap))

\* the count query parameter: any integer
CountInputs == (0 - 1)..(RecentCap + 2)

\* traffic_monitoring_middleware, after call_next has returned the response
TrafficMiddleware ==
    \E path \in Paths, status \in Statuses :
        /\ threads["loop"].pc = "idle"
        /\ ~ShouldLog(path) => status = 200
        /\ traffic_monitor.total_requests < MaxRequests
        /\ threads' = [threads EXCEPT !["loop"] =
                          IF ShouldLog(path)
                          THEN [pc |-> "acquire", log_entry |-> RequestLog(path, status)]
                          ELSE Idle]
        /\ last' = [op |-> "traffic_monitoring_middleware",
                    arg |-> [path |-> path], logged |-> ShouldLog(path)]
        /\ UNCHANGED <<traffic_monitor, completed, completed_errors>>
        /\ UNCHANGED outside_traffic

\* log_request: with self._lock
LogAcquire ==
    /\ threads["loop"].pc = "acquire"
    /\ CanAcquire(traffic_monitor)
    /\ traffic_monitor' = [traffic_monitor EXCEPT !._lock = "loop"]
    /\ threads' = [threads EXCEPT !["loop"].pc = "append"]
    /\ UNCHANGED <<completed, completed_errors, last>>
    /\ UNCHANGED outside_traffic

\* log_request: self.request_history.append(log_entry)
LogAppend ==
    /\ threads["loop"].pc = "append"
    /\ traffic_monitor' =
          [traffic_monitor EXCEPT !.request_history =
              DequeAppend(@, threads["loop"].log_entry, traffic_monitor.max_history)]
    /\ threads' = [threads EXCEPT !["loop"].pc = "load"]
    /\ UNCHANGED <<completed, completed_errors, last>>
    /\ UNCHANGED outside_traffic

\* log_request: self.total_requests += 1, the load
LogLoad ==
    /\ threads["loop"].pc = "load"
    /\ threads' = [threads EXCEPT !["loop"] =
                      [pc |-> "store", log_entry |-> @.log_entry,
                       loaded |-> traffic_monitor.total_requests]]
    /\ UNCHANGED <<traffic_monitor, completed, completed_errors, last>>
    /\ UNCHANGED outside_traffic

\* log_request: self.total_requests += 1, the store
LogStore ==
    /\ threads["loop"].pc = "store"
    /\ traffic_monitor' =
          [traffic_monitor EXCEPT !.total_requests = threads["loop"].loaded + 1]
    /\ threads' = [threads EXCEPT !["loop"] =
                      [pc |-> "errors", log_entry |-> @.log_entry]]
    /\ UNCHANGED <<completed, completed_errors, last>>
    /\ UNCHANGED outside_traffic

\* log_request: if status >= 400: self.total_errors += 1
LogErrors ==
    /\ threads["loop"].pc = "errors"
    /\ traffic_monitor' =
          [traffic_monitor EXCEPT !.total_errors =
              IF IsError(threads["loop"].log_entry.status) THEN @ + 1 ELSE @]
    /\ threads' = [threads EXCEPT !["loop"].pc = "endpoint"]
    /\ UNCHANGED <<completed, completed_errors, last>>
    /\ UNCHANGED outside_traffic

\* log_request: the entry of the endpoint is made if missing and counted up
LogEndpoint ==
    /\ threads["loop"].pc = "endpoint"
    /\ traffic_monitor' =
          [traffic_monitor EXCEPT !.endpoint_stats =
              Counted(@, threads["loop"].log_entry.path,
                      threads["loop"].log_entry.status)]
    /\ threads' = [threads EXCEPT !["loop"].pc = "release"]
    /\ UNCHANGED <<completed, completed_errors, last>>
    /\ UNCHANGED outside_traffic

\* log_request: the end of the with block; the request is recorded
LogRelease ==
    /\ threads["loop"].pc = "release"
    /\ traffic_monitor' = [traffic_monitor EXCEPT !._lock = Unlocked]
    /\ threads' = [threads EXCEPT !["loop"].pc = "callbacks"]
    /\ completed' = completed + 1
    /\ completed_errors' = IF IsError(threads["loop"].log_entry.status)
                           THEN completed_errors + 1 ELSE completed_errors
    /\ last' = [op |-> "log_request", arg |-> threads["loop"].log_entry]
    /\ UNCHANGED outside_traffic

\* log_request: the callbacks are called and the method returns
LogCallbacks ==
    /\ threads["loop"].pc = "callbacks"
    /\ threads' = [threads EXCEPT !["loop"] = Idle]
    /\ UNCHANGED <<traffic_monitor, completed, completed_errors, last>>
    /\ UNCHANGED outside_traffic

\* clear, on a pool thread: with self._lock
ClearAcquire ==
    \E w \in Workers :
        /\ threads[w].pc = "idle"
        /\ CanAcquire(traffic_monitor)
        /\ traffic_monitor' = [traffic_monitor EXCEPT !._lock = w]
        /\ threads' = [threads EXCEPT ![w] =
                          [pc |-> "clear_history",
                           before |-> traffic_monitor.total_requests]]
        /\ UNCHANGED <<completed, completed_errors, last>>
        /\ UNCHANGED outside_traffic

\* clear: self.request_history.clear(); self.endpoint_stats.clear()
ClearHistory ==
    \E w \in Workers :
        /\ threads[w].pc = "clear_history"
        /\ traffic_monitor' = [traffic_monitor EXCEPT !.request_history = <<>>,
                                                      !.endpoint_stats = <<>>]
        /\ threads' = [threads EXCEPT ![w].pc = "clear_total"]
        /\ UNCHANGED <<completed, completed_errors, last>>
        /\ UNCHANGED outside_traffic

\* clear: self.total_requests = 0
ClearTotal ==
    \E w \in Workers :
        /\ threads[w].pc = "clear_total"
        /\ traffic_monitor' = [traffic_monitor EXCEPT !.total_requests = 0]
        /\ threads' = [threads EXCEPT ![w].pc = "clear_errors"]
        /\ UNCHANGED <<completed, completed_errors, last>>
        /\ UNCHANGED outside_traffic

\* clear: self.total_errors = 0
ClearErrors ==
    \E w \in Workers :
        /\ threads[w].pc = "clear_errors"
        /\ traffic_monitor' = [traffic_monitor EXCEPT !.total_errors = 0]
        /\ threads' = [threads EXCEPT ![w].pc = "release"]
        /\ UNCHANGED <<completed, completed_errors, last>>
        /\ UNCHANGED outside_traffic

\* clear: the end of the with block, and the return
ClearRelease ==
    \E w \in Workers :
        /\ threads[w].pc = "release"
        /\ traffic_monitor' = [traffic_monitor EXCEPT !._lock = Unlocked]
        /\ threads' = [threads EXCEPT ![w] = Idle]
        /\ completed' = 0
        /\ completed_errors' = 0
        /\ last' = [op |-> "clear", before |-> threads[w].before]
        /\ UNCHANGED outside_traffic

\* GET /api/traffic/metrics on a pool thread: get_metrics reads under the lock
GetTrafficMetrics ==
    \E w \in Workers :
        /\ threads[w].pc = "idle"
        /\ CanAcquire(traffic_monitor)
        /\ last' = [op |-> "get_metrics",
                    ret |-> [total_requests |-> traffic_monitor.total_requests],
                    total_errors |-> traffic_monitor.total_errors]
        /\ UNCHANGED <<traffic_monitor, threads, completed, completed_errors>>
        /\ UNCHANGED outside_traffic

\* GET /api/traffic/endpoints on a pool thread: get_endpoint_stats reads
\* under the lock
GetEndpointStats ==
    \E w \in Workers :
        /\ threads[w].pc = "idle"
        /\ CanAcquire(traffic_monitor)
        /\ last' = [op |-> "get_endpoint_stats",
                    ret |-> traffic_monitor.endpoint_stats]
        /\ UNCHANGED <<traffic_monitor, threads, completed, completed_errors>>
        /\ UNCHANGED outside_traffic

\* GET /api/traffic/requests?count=... on a pool thread
GetTrafficRequests ==
    \E w \in Workers, count \in CountInputs :
        /\ threads[w].pc = "idle"
        /\ CanAcquire(traffic_monitor)
        /\ last' = [op |-> "get_traffic_requests", arg |-> [count |-> count],
                    history |-> traffic_monitor.request_history,
                    ret |-> get_traffic_requests(traffic_monitor, count)]
        /\ UNCHANGED <<traffic_monitor, threads, completed, completed_errors>>
        /\ UNCHANGED outside_traffic

NextTraffic ==
    \/ TrafficMiddleware
    \/ LogAcquire
    \/ LogAppend
    \/ LogLoad
    \/ LogStore
    \/ LogErrors
    \/ LogEndpoint
    \/ LogRelease
    \/ LogCallbacks
    \/ ClearAcquire
    \/ ClearHistory
    \/ ClearTotal
    \/ ClearErrors
    \/ ClearRelease
    \/ GetTrafficMetrics
    \/ GetEndpointStats
    \/ GetTrafficRequests

(***************************************************************************)
(* The websocket endpoints of main.py: /ws/logs, /ws/queue, /ws/traffic.   *)
(* The handlers read nothing of a WebSocket in a list but its presence, so *)
(* a list is modelled by its length.  A handler is suspended at            *)
(* await websocket.accept(), where other handlers run.                     *)
(***************************************************************************)
MAX_WS_CONNECTIONS == 10

\* the clients the model follows beyond MAX_WS_CONNECTIONS
ExtraClients == 2

Channels == {"logs", "queue", "traffic"}

\* the handlers that test the length of their list before they accept
LimitedChannels == {"logs", "traffic"}

\* the sum of f over the channels
Total(f) == f["logs"] + f["queue"] + f["traffic"]

\* websocket_logs, websocket_traffic: the test before the accept
LimitReached(channel) ==
    channel \in LimitedChannels /\ connections[channel] >= MAX_WS_CONNECTIONS

\* a handler starts: it closes the socket with 1013 and returns, or goes on to
\* await websocket.accept()
websocket_connect(channel) ==
    /\ Total(connections) + Total(accepting) < MAX_WS_CONNECTIONS + ExtraClients
    /\ accepting' = IF LimitReached(channel) THEN accepting
                    ELSE [accepting EXCEPT ![channel] = @ + 1]
    /\ last' = [op |-> "websocket_connect", channel |-> channel,
                full |-> connections[channel] >= MAX_WS_CONNECTIONS,
                close |-> IF LimitReached(channel) THEN 1013 ELSE 0]
    /\ UNCHANGED <<connections, closed>>
    /\ UNCHANGED outside_websocket

WebsocketConnect == \E channel \in Channels : websocket_connect(channel)

\* websocket.accept() returns and the handler appends the socket to its list
websocket_accepted(channel) ==
    /\ accepting[channel] > 0
    /\ accepting' = [accepting EXCEPT ![channel] = @ - 1]
    /\ connections' = [connections EXCEPT ![channel] = @ + 1]
    /\ last' = [op |-> "websocket_accepted", channel |-> channel]
    /\ UNCHANGED closed
    /\ UNCHANGED outside_websocket

WebsocketAccepted == \E channel \in Channels : websocket_accepted(channel)

\* websocket.accept() raises (the client is gone): nothing is appended
websocket_accept_fails(channel) ==
    /\ accepting[channel] > 0
    /\ accepting' = [accepting EXCEPT ![channel] = @ - 1]
    /\ last' = [op |-> "websocket_accept_failed", channel |-> channel]
    /\ UNCHANGED <<connections, closed>>
    /\ UNCHANGED outside_websocket

WebsocketAcceptFails == \E channel \in Channels : websocket_accept_fails(channel)

\* the smaller of two numbers
Least(a, b) == IF a < b THEN a ELSE b

\* a handler, or broadcast_log, removes a socket from its list
WebsocketRemoved ==
    \E channel \in Channels :
        /\ connections[channel] > 0
        /\ connections' = [connections EXCEPT ![channel] = @ - 1]
        /\ closed' = [closed EXCEPT ![channel] = Least(@, connections[channel] - 1)]
        /\ last' = [op |-> "websocket_removed", channel |-> channel]
        /\ UNCHANGED accepting
        /\ UNCHANGED outside_websocket

NextWebsocket ==
    \/ WebsocketConnect
    \/ WebsocketAccepted
    \/ WebsocketAcceptFails
    \/ WebsocketRemoved

(***************************************************************************)
(* The log channel: websocket_logs and broadcast_log.  After the append    *)
(* the handler of /ws/logs only sleeps: it never reads the socket, so the  *)
(* peer going away raises nothing in it and the socket stays in            *)
(* log_connections.  broadcast_log runs on a log-streaming thread and      *)
(* hands one send_text coroutine per socket to the event loop; what the    *)
(* coroutine raises is stored in a Future nobody reads.                    *)
(***************************************************************************)
LogsConnect == websocket_connect("logs")

LogsAccepted == websocket_accepted("logs")

LogsAcceptFails == websocket_accept_fails("logs")

\* the peer of a registered /ws/logs socket goes away
ClientCloses ==
    /\ closed["logs"] < connections["logs"]
    /\ closed' = [closed EXCEPT !["logs"] = @ + 1]
    /\ last' = [op |-> "client_closes", channel |-> "logs"]
    /\ UNCHANGED <<connections, accepting>>
    /\ UNCHANGED outside_websocket

\* what broadcast_log can find: the loop running, no loop or a loop that has
\* stopped, or a loop closed under it so that the scheduling call raises
Loops == {"running", "stopped", "closed"}

\* broadcast_log(log_entry): the sockets left in log_connections and the
\* sockets among them whose peer is gone
broadcast_log(loop) ==
    IF loop = "stopped" \/ connections["logs"] = 0
    THEN [connections |-> connections["logs"], closed |-> closed["logs"]]
    ELSE IF loop = "closed"
         THEN [connections |-> 0, closed |-> 0]
         ELSE [connections |-> connections["logs"], closed |-> closed["logs"]]

\* the sends of one broadcast_log that reach their peer
Delivered(loop) ==
    IF loop = "running" THEN connections["logs"] - closed["logs"] ELSE 0

\* the sends of one broadcast_log that fail in their coroutine
Failed(loop) ==
    IF loop = "running" THEN closed["logs"] ELSE 0

BroadcastLogEntry ==
    \E loop \in Loops :
        /\ connections' = [connections EXCEPT !["logs"] = broadcast_log(loop).connections]
        /\ closed' = [closed EXCEPT !["logs"] = broadcast_log(loop).closed]
        /\ last' = [op |-> "broadcast_log", loop |-> loop,
                    subscribers |-> connections["logs"],
                    delivered |-> Delivered(loop),
                    failed |-> Failed(loop)]
        /\ UNCHANGED accepting
        /\ UNCHANGED outside_websocket

NextBroadcast ==
    \/ LogsConnect
    \/ LogsAccepted
    \/ LogsAcceptFails
    \/ ClientCloses
    \/ BroadcastLogEntry

(***************************************************************************)
(* The process supervisor (server_manager.py), the tunnel supervisor       *)
(* (network_manager.py) and the control endpoints of main.py.  A Popen     *)
(* handle is the pid of its process; a tunnel URL is told apart by the pid *)
(* of the agent that announced it.  The methods are operators from the     *)
(* world (the two objects and the operating system's processes) to the     *)
(* world after the call and the returned dict.                             *)
(***************************************************************************)
\* the processes the model lets the supervisors spawn
MaxSpawns == 3

\* ServerManager.__init__
ServerManager ==
    [process |-> None, frontend_process |-> None, log_callbacks |-> <<>>,
     is_running |-> FALSE]

\* NetworkManager.__init__
NetworkManager ==
    [ngrok_process |-> None, ngrok_url |-> None,
     cloudflare_process |-> None, cloudflare_url |-> None]

World == [server_manager |-> server_manager, network_manager |-> network_manager,
          processes |-> processes]

Result(world, ret) == [world |-> world, ret |-> ret]

\* a handle whose process is running
IsAlive(world, handle) == handle # None /\ Get(handle) \in world.processes.alive

\* subprocess.Popen: a new process
Popen(world) ==
    [world EXCEPT !.processes.spawned = @ + 1,
                  !.processes.alive = @ \cup {world.processes.spawned + 1}]

\* Popen followed by the start of a _stream_logs thread on the new process
PopenStreamed(world) ==
    [Popen(world) EXCEPT !.processes.streaming = @ \cup {world.processes.spawned + 1}]

\* the pid of the process the last Popen made
NewPid(world) == world.processes.spawned

\* what is left of the agents' command lines when a process is gone
Without(agents, pid) == {agent \in agents : agent.pid # pid}

\* terminate() and wait(), or kill(): the process and its children are gone
Terminate(world, pid) ==
    [world EXCEPT !.processes.alive = @ \ {pid},
                  !.processes.agents = Without(@, pid)]

\* the port BackendBuddy itself listens on (main.py, uvicorn.run)
AdminPort == 1338

\* the port of the configuration record init_db creates
DefaultPort == 8000

\* a plausible slip: the agent is always pointed at the port asked for
TunnelTargetPort_direct(port, queue_enabled) == port

\* start_ngrok, start_cloudflare: target_port, from the port asked for and the
\* queue_enabled column of the configuration read inside the call
TunnelTargetPort(port, queue_enabled) == IF queue_enabled THEN AdminPort ELSE port

\* subprocess.Popen of a tunnel agent (program: "ngrok" or "cloudflared") that
\* forwards to target_port
PopenAgent(world, program, target_port) ==
    [Popen(world) EXCEPT !.processes.agents =
        @ \cup {[pid |-> world.processes.spawned + 1, program |-> program,
                 port |-> target_port]}]

\* what psutil does in stop(): "ok" (also on a process that has exited but is
\* not reaped), "NoSuchProcess" (only on a process that has exited), or
\* another exception
PsutilOutcomes(world, handle) ==
    IF IsAlive(world, handle) THEN {"ok", "Exception"}
    ELSE {"ok", "NoSuchProcess", "Exception"}

\* A command line, cut into pieces: each piece is one of the patterns start()
\* looks for, or text that holds none of them.  The grave accent is written
\* "backtick" here.
dangerous_patterns == {"$(", "backtick", "|", ">", "<", ";", "\n", "\r"}

CleanCommand == <<"npm run dev">>
DangerousCommand == <<"npm run dev", ";", "shutdown">>
Commands == {CleanCommand, DangerousCommand}

\* pattern in command
Contains(command, pattern) == \E i \in 1..Len(command) : command[i] = pattern

\* the loop of start() over dangerous_patterns finds one in the command
Forbidden(command) == \E pattern \in dangerous_patterns : Contains(command, pattern)

\* A directory is the sequence of the components of its path; a frontend
\* directory that is given exists.
BackendDirectory == <<"app">>
Directories == {<<"app">>, <<"app", ".">>, <<"web">>}

\* os.path.normpath: the "." components go
NotDot(component) == component # "."
NormPath(path) == SelectSeq(path, NotDot)

\* the log sink control_server registers
BroadcastLog == "broadcast_log"

\* ServerManager.start; frontend_directory, frontend_command and log_callback
\* are None when not given; valid: the backend directory exists and is a
\* directory
start(world, command, frontend_directory, frontend_command, log_callback, valid) ==
    LET self == world.server_manager
        log_callbacks == IF log_callback = None THEN <<>> ELSE <<Get(log_callback)>>
        backend == PopenStreamed(world)
        both == PopenStreamed(backend)
    IN  IF self.is_running
        THEN Result(world, [success |-> FALSE, message |-> "Server is already running"])
        ELSE IF ~valid
        THEN Result(world, [success |-> FALSE, message |-> "Directory does not exist"])
        ELSE IF Forbidden(command)
        THEN Result(world, [success |-> FALSE,
                            message |-> "Invalid command: contains forbidden character"])
        ELSE IF frontend_directory # None /\ frontend_command # None
        THEN Result([both EXCEPT !.server_manager.log_callbacks = log_callbacks,
                                 !.server_manager.process = Some(NewPid(backend)),
                                 !.server_manager.is_running = TRUE,
                                 !.server_manager.frontend_process = Some(NewPid(both))],
                    [success |-> TRUE, message |-> "Server(s) started successfully"])
        ELSE Result([backend EXCEPT !.server_manager.log_callbacks = log_callbacks,
                                    !.server_manager.process = Some(NewPid(backend)),
                                    !.server_manager.is_running = TRUE],
                    [success |-> TRUE, message |-> "Server(s) started successfully"])

\* the block of stop() that stops the frontend; its exceptions are logged
StopFrontend(world, frontend_outcome) ==
    LET self == world.server_manager
    IN  IF self.frontend_process = None \/ frontend_outcome # "ok"
        THEN world
        ELSE [Terminate(world, Get(self.frontend_process))
                EXCEPT !.server_manager.frontend_process = None]

\* the state stop() leaves on every path behind its first test
Cleared(world) ==
    [world EXCEPT !.server_manager.is_running = FALSE,
                  !.server_manager.process = None]

\* ServerManager.stop
stop(world, outcome, frontend_outcome) ==
    LET self == world.server_manager
    IN  IF self.process = None \/ ~self.is_running
        THEN Result(world, [success |-> FALSE, message |-> "No server is running"])
        ELSE IF outcome = "NoSuchProcess"
        THEN Result(Cleared(world),
                    [success |-> TRUE, message |-> "Server already stopped"])
        ELSE IF outcome = "Exception"
        THEN Result(Cleared(world),
                    [success |-> FALSE, message |-> "Failed to stop server"])
        ELSE Result(Cleared(StopFrontend(Terminate(world, Get(self.process)),
                                         frontend_outcome)),
                    [success |-> TRUE, message |-> "Server stopped successfully"])

\* ServerManager.restart
\* restart, behind the call of stop()
StartAfter(stop_result, command, frontend_directory, frontend_command, valid) ==
    IF ~stop_result.ret.success /\ stop_result.world.server_manager.is_running
    THEN stop_result
    ELSE start(stop_result.world, command, frontend_directory, frontend_command,
               None, valid)

restart(world, outcome, frontend_outcome, command, frontend_directory, frontend_command, valid) ==
    StartAfter(stop(world, outcome, frontend_outcome),
               command, frontend_directory, frontend_command, valid)

\* ServerManager.get_status
get_status(world) ==
    LET self == world.server_manager
    IN  IF IsAlive(world, self.process)
        THEN Result([world EXCEPT !.server_manager.is_running = TRUE],
                    [running |-> TRUE, pid |-> self.process])
        ELSE Result([world EXCEPT !.server_manager.is_running = FALSE],
                    [running |-> FALSE, pid |-> None])

\* NetworkManager.get_ngrok_status
get_ngrok_status(world) ==
    LET self == world.network_manager
    IN  IF self.ngrok_process = None
        THEN Result(world, [running |-> FALSE, url |-> None])
        ELSE IF ~IsAlive(world, self.ngrok_process)
        THEN Result([world EXCEPT !.network_manager.ngrok_process = None,
                                  !.network_manager.ngrok_url = None],
                    [running |-> FALSE, url |-> None])
        ELSE Result(world, [running |-> TRUE, url |-> self.ngrok_url])

\* a plausible slip: a start never finds the tunnel already running
AlreadyRunning_never(world, process, url) == FALSE

\* start_ngrok, start_cloudflare: process.poll() is None and the URL is set
AlreadyRunning(world, process, url) == IsAlive(world, process) /\ url # None

\* NetworkManager.start_ngrok; queue_enabled: the column as the call reads it;
\* url_found: the ngrok API answered with a tunnel
start_ngrok(world, port, queue_enabled, url_found) ==
    LET self == world.network_manager
        spawned == PopenAgent(world, "ngrok", TunnelTargetPort(port, queue_enabled))
        pid == NewPid(spawned)
    IN  IF AlreadyRunning(world, self.ngrok_process, self.ngrok_url)
        THEN Result(world, [success |-> TRUE, url |-> self.ngrok_url,
                            message |-> "ngrok already running"])
        ELSE IF url_found
        THEN Result([spawned EXCEPT !.network_manager.ngrok_process = Some(pid),
                                    !.network_manager.ngrok_url = Some(pid)],
                    [success |-> TRUE, url |-> Some(pid),
                     message |-> "ngrok started successfully"])
        ELSE Result([spawned EXCEPT !.network_manager.ngrok_process = Some(pid),
                                    !.network_manager.ngrok_url = None],
                    [success |-> FALSE, message |-> "Failed to retrieve ngrok URL"])

\* NetworkManager.stop_ngrok
stop_ngrok(world) ==
    LET self == world.network_manager
    IN  IF self.ngrok_process = None
        THEN Result(world, [success |-> FALSE, message |-> "ngrok is not running"])
        ELSE Result([Terminate(world, Get(self.ngrok_process))
                        EXCEPT !.network_manager.ngrok_process = None,
                               !.network_manager.ngrok_url = None],
                    [success |-> TRUE, message |-> "ngrok stopped successfully"])

\* NetworkManager.stop_cloudflare
stop_cloudflare(world) ==
    LET self == world.network_manager
    IN  IF self.cloudflare_process = None
        THEN Result(world, [none |-> TRUE])
        ELSE Result([Terminate(world, Get(self.cloudflare_process))
                        EXCEPT !.network_manager.cloudflare_process = None,
                               !.network_manager.cloudflare_url = None],
                    [none |-> TRUE])

\* NetworkManager.start_cloudflare; queue_enabled: the column as the call
\* reads it; url_found: the URL showed up in the agent's output within ten
\* seconds
start_cloudflare(world, port, queue_enabled, url_found) ==
    LET self == world.network_manager
        stopped == stop_cloudflare(world).world
        spawned == PopenAgent(stopped, "cloudflared",
                              TunnelTargetPort(port, queue_enabled))
        pid == NewPid(spawned)
    IN  IF AlreadyRunning(world, self.cloudflare_process, self.cloudflare_url)
        THEN Result(world, [success |-> TRUE, url |-> self.cloudflare_url,
                            message |-> "cloudflared already running"])
        ELSE IF url_found
        THEN Result([spawned EXCEPT !.network_manager.cloudflare_process = Some(pid),
                                    !.network_manager.cloudflare_url = Some(pid)],
                    [success |-> TRUE, url |-> Some(pid),
                     message |-> "Cloudflare tunnel started"])
        ELSE Result([spawned EXCEPT !.network_manager.cloudflare_process = Some(pid)],
                    [success |-> FALSE,
                     message |-> "Cloudflare started but URL not found"])

\* if config.port: the column holds a number other than 0
Truthy(port) == port # None /\ Get(port) # 0

\* ProjectConfig as control_server reads it (directory, command and port are
\* set): the backend's directory and command, the frontend's if configured,
\* and which tunnels are enabled
ServerConfigs ==
    [directory : {BackendDirectory}, command : Commands,
     frontend_directory : {None} \cup {Some(d) : d \in Directories},
     frontend_command : {None} \cup {Some(c) : c \in Commands},
     port : {Some(DefaultPort)}, queue_enabled : BOOLEAN,
     ngrok_enabled : BOOLEAN, cloudflare_enabled : BOOLEAN]

\* what the environment decides during a control_server call
ServerEnvs ==
    [outcome : {"ok", "NoSuchProcess", "Exception"},
     frontend_outcome : {"ok", "Exception"},
     valid : BOOLEAN, ngrok_url_found : BOOLEAN, cloudflare_url_found : BOOLEAN]

\* a plausible slip: the enabled tunnels are restarted with the server
EnsureTunnels_restarted(world, config, env) ==
    LET ngrok == IF config.ngrok_enabled
                 THEN start_ngrok(stop_ngrok(world).world, Get(config.port),
                                  config.queue_enabled, env.ngrok_url_found).world
                 ELSE world
    IN  IF config.cloudflare_enabled
        THEN start_cloudflare(stop_cloudflare(ngrok).world, Get(config.port),
                              config.queue_enabled, env.cloudflare_url_found).world
        ELSE ngrok

\* control_server, restart: ngrok is started if its status says not running
EnsureNgrok(ngrok_status, config, url_found) ==
    IF ~ngrok_status.ret.running
    THEN start_ngrok(ngrok_status.world, Get(config.port), config.queue_enabled,
                     url_found).world
    ELSE ngrok_status.world

\* control_server, restart: cloudflared is started if there is no handle
EnsureCloudflare(world, config, url_found) ==
    IF /\ config.cloudflare_enabled
       /\ Truthy(config.port)
       /\ world.network_manager.cloudflare_process = None
    THEN start_cloudflare(world, Get(config.port), config.queue_enabled,
                          url_found).world
    ELSE world

\* control_server, restart: the tunnels are started if they should run and
\* do not
EnsureTunnels(world, config, env) ==
    EnsureCloudflare(
        IF config.ngrok_enabled /\ Truthy(config.port)
        THEN EnsureNgrok(get_ngrok_status(world), config, env.ngrok_url_found)
        ELSE world,
        config, env.cloudflare_url_found)

\* control_server, restart: behind the call of server_manager.restart
TunnelsAfter(result, config, env) ==
    IF result.ret.success
    THEN Result(EnsureTunnels(result.world, config, env), result.ret)
    ELSE result

\* control_server, start: the frontend directory is the backend's
SameDirectory(config) ==
    /\ config.frontend_directory # None
    /\ NormPath(Get(config.frontend_directory)) = NormPath(config.directory)

\* POST /api/server
control_server(world, action, config, env) ==
    IF action = "start"
    THEN IF SameDirectory(config)
         THEN start(world, config.command, None, None, Some(BroadcastLog), env.valid)
         ELSE start(world, config.command, config.frontend_directory,
                    config.frontend_command, Some(BroadcastLog), env.valid)
    ELSE IF action = "stop"
    THEN stop(world, env.outcome, env.frontend_outcome)
    ELSE TunnelsAfter(restart(world, env.outcome, env.frontend_outcome,
                              config.command, config.frontend_directory,
                              config.frontend_command, env.valid), config, env)

\* the effect of one call on the variables
ServerCall(op, arg, result) ==
    /\ result.world.processes.spawned <= MaxSpawns
    /\ server_manager' = result.world.server_manager
    /\ network_manager' = result.world.network_manager
    /\ processes' = result.world.processes
    /\ last' = [op |-> op, arg |-> arg, ret |-> result.ret]
    /\ UNCHANGED outside_server

\* The environment's choices that a control_server call can meet, valids
\* being what the test of the backend directory can say.  A choice the call
\* never comes to is left at its first value.
EnvsFor(world, action, config, valids) ==
    LET self == world.server_manager
        stops == action # "start" /\ self.process # None /\ self.is_running
        tunnels == action = "restart"
    IN  UNION {
          UNION {
            [outcome : {outcome},
             frontend_outcome :
                IF stops /\ outcome = "ok" /\ self.frontend_process # None
                THEN {"ok", "Exception"} ELSE {"ok"},
             valid : {valid},
             ngrok_url_found :
                IF tunnels /\ valid /\ config.ngrok_enabled
                      /\ ~IsAlive(world, world.network_manager.ngrok_process)
                THEN BOOLEAN ELSE {TRUE},
             cloudflare_url_found :
                IF tunnels /\ valid /\ config.cloudflare_enabled
                      /\ world.network_manager.cloudflare_process = None
                THEN BOOLEAN ELSE {TRUE}] :
            valid \in IF action # "stop" THEN valids ELSE {TRUE}} :
          outcome \in IF stops THEN PsutilOutcomes(world, self.process) ELSE {"ok"}}

\* a frontend is configured
HasFrontend(config) == config.frontend_directory # None /\ config.frontend_command # None

\* The configurations of a project whose commands are clean and whose
\* frontend, if it has one, is in a directory of its own; of those, the ones
\* that differ in what the action reads.
ConfigsFor(action) ==
    {config \in ServerConfigs :
        /\ config.command = CleanCommand
        /\ config.queue_enabled
        /\ config.frontend_directory \in {None, Some(<<"web">>)}
        /\ config.frontend_command =
              IF config.frontend_directory = None THEN None ELSE Some(CleanCommand)
        /\ action = "stop" => ~HasFrontend(config)
        /\ action # "restart" => (~config.ngrok_enabled /\ ~config.cloudflare_enabled)}

\* POST /api/server for a project whose directory exists
ControlServer ==
    \E action \in {"start", "stop", "restart"} :
        \E config \in ConfigsFor(action) :
            \E env \in EnvsFor(World, action, config, {TRUE}) :
                \E result \in {control_server(World, action, config, env)} :
                    ServerCall("control_server",
                               [action |-> action, config |-> config], result)

\* GET /api/server/status
GetServerStatus ==
    ServerCall("get_server_status", [none |-> TRUE], get_status(World))

\* POST /api/ngrok; port and queue_enabled: the columns of the configuration
control_ngrok(world, action, port, queue_enabled, url_found) ==
    IF action = "start"
    THEN IF Truthy(port)
         THEN start_ngrok(world, Get(port), queue_enabled, url_found)
         ELSE Result(world, [success |-> FALSE, message |-> "No port configured"])
    ELSE Result(stop_ngrok(world).world,
                [success |-> TRUE, message |-> "ngrok stopped"])

\* POST /api/cloudflare
control_cloudflare(world, action, port, queue_enabled, url_found) ==
    IF action = "start"
    THEN IF Truthy(port)
         THEN start_cloudflare(world, Get(port), queue_enabled, url_found)
         ELSE Result(world, [success |-> FALSE, message |-> "No port configured"])
    ELSE Result(stop_cloudflare(world).world,
                [success |-> TRUE, message |-> "cloudflare stopped"])

\* the port column: not set, or the port of the target
Ports == {None, Some(DefaultPort)}

\* the calls of a tunnel endpoint that differ in what the handler reads
TunnelCalls(ports, flags) ==
    [action : {"start"}, port : ports, queue_enabled : flags, url_found : BOOLEAN]
        \cup [action : {"stop"}, port : {Some(DefaultPort)}, queue_enabled : {TRUE},
               url_found : {TRUE}]

\* POST /api/ngrok for a project with a port and the queue enabled
ControlNgrok ==
    \E call \in TunnelCalls({Some(DefaultPort)}, {TRUE}) :
        ServerCall("control_ngrok", [action |-> call.action],
                   control_ngrok(World, call.action, call.port, call.queue_enabled,
                                 call.url_found))

\* POST /api/cloudflare for a project with a port and the queue enabled
ControlCloudflare ==
    \E call \in TunnelCalls({Some(DefaultPort)}, {TRUE}) :
        ServerCall("control_cloudflare", [action |-> call.action],
                   control_cloudflare(World, call.action, call.port,
                                      call.queue_enabled, call.url_found))

\* a process ends on its own
ProcessExits ==
    \E pid \in processes.alive :
        /\ processes' = [processes EXCEPT !.alive = @ \ {pid},
                                          !.agents = Without(@, pid)]
        /\ last' = [op |-> "process_exits"]
        /\ UNCHANGED <<server_manager, network_manager>>
        /\ UNCHANGED outside_server

\* _stream_logs: the process's output has ended, the thread leaves through
\* its finally block
StreamLogsEnds ==
    \E pid \in processes.streaming \ processes.alive :
        /\ processes' = [processes EXCEPT !.streaming = @ \ {pid}]
        /\ server_manager' = [server_manager EXCEPT !.is_running = FALSE]
        /\ last' = [op |-> "_stream_logs"]
        /\ UNCHANGED network_manager
        /\ UNCHANGED outside_server

NextServer ==
    \/ ControlServer
    \/ GetServerStatus
    \/ ControlNgrok
    \/ ControlCloudflare
    \/ ProcessExits
    \/ StreamLogsEnds

(***************************************************************************)
(* The tunnel endpoints for every configuration: with and without a port,  *)
(* the queue enabled or not.                                               *)
(***************************************************************************)
ControlNgrokPorts ==
    \E call \in TunnelCalls(Ports, BOOLEAN) :
        ServerCall("control_ngrok",
                   [action |-> call.action, port |-> call.port,
                    queue_enabled |-> call.queue_enabled],
                   control_ngrok(World, call.action, call.port, call.queue_enabled,
                                 call.url_found))

ControlCloudflarePorts ==
    \E call \in TunnelCalls(Ports, BOOLEAN) :
        ServerCall("control_cloudflare",
                   [action |-> call.action, port |-> call.port,
                    queue_enabled |-> call.queue_enabled],
                   control_cloudflare(World, call.action, call.port,
                                      call.queue_enabled, call.url_found))

NextTunnel ==
    \/ ControlNgrokPorts
    \/ ControlCloudflarePorts
    \/ ProcessExits

(***************************************************************************)
(* The control endpoint for projects of every shape: any command, with or  *)
(* without a frontend, in the backend's directory or elsewhere.  No tunnel *)
(* is enabled.                                                             *)
(***************************************************************************)
\* A frontend has a directory and a command or neither; behind a backend
\* command that start() refuses, the frontend is never looked at.
LaunchConfigsFor(action) ==
    {config \in ServerConfigs :
        /\ ~config.ngrok_enabled
        /\ ~config.cloudflare_enabled
        /\ config.queue_enabled
        /\ config.frontend_directory = None <=> config.frontend_command = None
        /\ Forbidden(config.command) =>
              config.frontend_directory \in {None, Some(<<"web">>)}
        /\ action = "stop" => config \in ConfigsFor(action)}

ControlServerLaunch ==
    \E action \in {"start", "stop", "restart"} :
        \E config \in LaunchConfigsFor(action) :
            \E env \in EnvsFor(World, action, config, BOOLEAN) :
                \E result \in {control_server(World, action, config, env)} :
                    ServerCall("control_server",
                               [action |-> action, config |-> config, env |-> env],
                               result)

NextLaunch ==
    \/ ControlServerLaunch
    \/ GetServerStatus
    \/ ProcessExits
    \/ StreamLogsEnds

(***************************************************************************)
(* The state machine.                                                      *)
(***************************************************************************)
Known(self) == Ids(self.active_users) \cup Ids(self.waiting_users)

\* QueueManager.__init__
Init ==
    /\ queue_manager = [active_users |-> <<>>, waiting_users |-> <<>>,
                        heartbeat_timeout |-> DefaultHeartbeatTimeout,
                        max_concurrent |-> 1, prioritize_localhost |-> TRUE]
    /\ now = 0
    /\ pre = queue_manager
    /\ last = [op |-> "init"]
    /\ priority_admitted = {}
    /\ traffic_monitor = TrafficMonitor
    /\ threads = [t \in Threads |-> Idle]
    /\ completed = 0
    /\ completed_errors = 0
    /\ connections = [channel \in Channels |-> 0]
    /\ accepting = [channel \in Channels |-> 0]
    /\ closed = [channel \in Channels |-> 0]
    /\ server_manager = ServerManager
    /\ network_manager = NetworkManager
    /\ processes = [spawned |-> 0, alive |-> {}, streaming |-> {}, agents |-> {}]

\* the effect of one call on the variables
Call(op, arg, out) ==
    /\ pre' = queue_manager
    /\ queue_manager' = out.self
    /\ last' = [op |-> op, arg |-> arg, ret |-> out.ret, notify |-> out.notify]
    /\ priority_admitted' =
          (priority_admitted \cup
              IF op = "join_queue" /\ out.ret.message = "Localhost priority access granted"
              THEN {out.ret.session_id} ELSE {})
          \cap Ids(out.self.active_users)
    /\ UNCHANGED now
    /\ UNCHANGED outside_queue

Configure ==
    \E max_concurrent \in CapInputs, prioritize_localhost \in BOOLEAN :
        Call("configure",
             [max_concurrent |-> max_concurrent,
              prioritize_localhost |-> prioritize_localhost],
             configure(queue_manager, max_concurrent, prioritize_localhost))

\* The values uuid.uuid4() can yield for a call: a string no entry holds when
\* the call mints one, and no value when it does not.
Uuid4(self, session_id) ==
    IF session_id = NoSession THEN Sessions \ Known(self) ELSE {NoSession}

JoinQueue ==
    \E session_id \in Sessions \cup {NoSession}, is_localhost \in BOOLEAN :
        \E uuid \in Uuid4(queue_manager, session_id) :
            Call("join_queue",
                 [session_id |-> session_id, is_localhost |-> is_localhost],
                 join_queue(queue_manager, session_id, is_localhost, uuid, now))

LeaveQueue ==
    \E session_id \in Sessions :
        Call("leave_queue", [session_id |-> session_id],
             leave_queue(queue_manager, session_id))

Heartbeat ==
    \E session_id \in Sessions :
        Call("heartbeat", [session_id |-> session_id],
             heartbeat(queue_manager, session_id, now))

CheckTimeouts ==
    Call("check_timeouts", [none |-> TRUE], check_timeouts(queue_manager, now))

\* time passes between two calls
Tick ==
    \E t \in Instants :
        /\ t > now
        /\ now' = t
        /\ pre' = queue_manager
        /\ last' = [op |-> "tick"]
        /\ UNCHANGED <<queue_manager, priority_admitted>>
        /\ UNCHANGED outside_queue

Next ==
    \/ Configure
    \/ JoinQueue
    \/ LeaveQueue
    \/ Heartbeat
    \/ CheckTimeouts
    \/ Tick

Spec == Init /\ [][Next]_vars

\* the traffic recorder under the middleware and the traffic endpoints
SpecTraffic == Init /\ [][NextTraffic]_vars

\* the websocket endpoints under connecting and disconnecting clients
SpecWebsocket == Init /\ [][NextWebsocket]_vars

\* the log channel alone
SpecBroadcast == Init /\ [][NextBroadcast]_vars

\* the process supervisor and the tunnels under the control endpoints
SpecServer == Init /\ [][NextServer]_vars

\* the process supervisor launching projects of every shape
SpecLaunch == Init /\ [][NextLaunch]_vars

\* the tunnel supervisor under the tunnel endpoints
SpecTunnel == Init /\ [][NextTunnel]_vars

(***************************************************************************)
(* The admission controller with two sessions and a clock read at three    *)
(* instants, so that at the last one an entry refreshed at the second is   *)
(* exactly heartbeat_timeout old (the boundary of check_timeouts'          *)
(* comparison) and an entry refreshed at the first is older.               *)
(***************************************************************************)
ReapSessions == {"S1", "S2"}

ReapInstants == {0, 1, DefaultHeartbeatTimeout + 1}

JoinQueueReap ==
    \E session_id \in ReapSessions, is_localhost \in BOOLEAN :
        Call("join_queue",
             [session_id |-> session_id, is_localhost |-> is_localhost],
             join_queue(queue_manager, session_id, is_localhost, NoSession, now))

HeartbeatReap ==
    \E session_id \in ReapSessions :
        Call("heartbeat", [session_id |-> session_id],
             heartbeat(queue_manager, session_id, now))

TickReap ==
    \E t \in ReapInstants :
        /\ t > now
        /\ now' = t
        /\ pre' = queue_manager
        /\ last' = [op |-> "tick"]
        /\ UNCHANGED <<queue_manager, priority_admitted>>
        /\ UNCHANGED outside_queue

NextReap ==
    \/ JoinQueueReap
    \/ HeartbeatReap
    \/ CheckTimeouts
    \/ TickReap

SpecReap == Init /\ [][NextReap]_vars

(***************************************************************************)
(* The queue under its readers.  The mutating endpoints are coroutines and *)
(* run on the event loop; GET /api/queue/status and                        *)
(* GET /api/queue/my-status/{session_id} are plain functions, which the    *)
(* framework runs on pool threads.  QueueManager has no lock, so a pool    *)
(* thread can read the two lists between any two steps of leave_queue and  *)
(* _promote_waiting_users.  A join changes the lists by one append.        *)
(***************************************************************************)
\* QueueManager.get_queue_state, without the wait_time of each entry
get_queue_state(self) ==
    [active_count |-> Len(self.active_users),
     max_concurrent |-> self.max_concurrent,
     active_users |-> [i \in 1..Len(self.active_users) |->
                          self.active_users[i].session_id],
     queue_length |-> Len(self.waiting_users),
     waiting_users |-> [i \in 1..Len(self.waiting_users) |->
                           [session_id |-> self.waiting_users[i].session_id,
                            position |-> self.waiting_users[i].position]]]

\* QueueManager.get_user_status; [none |-> TRUE] is Python's None
get_user_status(self, session_id) ==
    LET w == IndexOf(self.waiting_users, session_id)
    IN  IF _is_user_active(self, session_id)
        THEN [session_id |-> session_id, status |-> "active", position |-> 0]
        ELSE IF w # 0
        THEN [session_id |-> session_id, status |-> "waiting",
              position |-> self.waiting_users[w].position,
              queue_length |-> Len(self.waiting_users)]
        ELSE [none |-> TRUE]

\* what the steps of leave_queue on the event loop leave alone
outside_leave ==
    <<now, traffic_monitor, completed, completed_errors, websocket_vars, server_vars>>

\* the queue as whole operations leave it: as it is while the event loop is
\* in no method, else as it was before the leave_queue under way and as that
\* call leaves it
WholeStates ==
    IF threads["loop"] = Idle THEN {queue_manager}
    ELSE {pre, leave_queue(pre, threads["loop"].session_id).self}

ObserveConfigure == threads["loop"] = Idle /\ Configure

ObserveJoinQueue == threads["loop"] = Idle /\ JoinQueue

\* leave_queue up to self.active_users.pop(i) or self.waiting_users.pop(i);
\* the call returns at once for a session in neither list
LeavePop ==
    \E session_id \in Sessions :
        LET a == IndexOf(queue_manager.active_users, session_id)
            w == IndexOf(queue_manager.waiting_users, session_id)
        IN  /\ threads["loop"] = Idle
            /\ pre' = queue_manager
            /\ IF a # 0
               THEN /\ queue_manager' = [queue_manager EXCEPT !.active_users = Pop(@, a)]
                    /\ threads' = [threads EXCEPT !["loop"] =
                                      [pc |-> "promote", session_id |-> session_id,
                                       message |-> "Left active session"]]
                    /\ last' = [op |-> "leave_queue.pop", arg |-> [session_id |-> session_id]]
               ELSE IF w # 0
               THEN /\ queue_manager' = [queue_manager EXCEPT !.waiting_users = Pop(@, w)]
                    /\ threads' = [threads EXCEPT !["loop"] =
                                      [pc |-> "positions", session_id |-> session_id,
                                       message |-> "Removed from queue", i |-> 1]]
                    /\ last' = [op |-> "leave_queue.pop", arg |-> [session_id |-> session_id]]
               ELSE /\ last' = [op |-> "leave_queue", arg |-> [session_id |-> session_id],
                                ret |-> leave_queue(queue_manager, session_id).ret,
                                notify |-> FALSE]
                    /\ UNCHANGED <<queue_manager, threads>>
            /\ UNCHANGED priority_admitted
            /\ UNCHANGED outside_leave

\* _promote_waiting_users: the loop test and next_user = self.waiting_users.pop(0)
PromotePop ==
    /\ threads["loop"].pc = "promote"
    /\ IF PromoteCondition(queue_manager)
       THEN /\ queue_manager' = [queue_manager EXCEPT !.waiting_users = Tail(@)]
            /\ threads' = [threads EXCEPT !["loop"] =
                              [pc |-> "append", session_id |-> @.session_id,
                               message |-> @.message,
                               next_user |-> Head(queue_manager.waiting_users)]]
       ELSE /\ threads' = [threads EXCEPT !["loop"] =
                              [pc |-> "positions", session_id |-> @.session_id,
                               message |-> @.message, i |-> 1]]
            /\ UNCHANGED queue_manager
    /\ UNCHANGED <<pre, last, priority_admitted>>
    /\ UNCHANGED outside_leave

\* _promote_waiting_users: is_active and position are set on next_user and
\* self.active_users.append(next_user)
PromoteAppend ==
    /\ threads["loop"].pc = "append"
    /\ queue_manager' =
          [queue_manager EXCEPT !.active_users =
              Append(@, [threads["loop"].next_user EXCEPT !.is_active = TRUE,
                                                          !.position = 0])]
    /\ threads' = [threads EXCEPT !["loop"] =
                      [pc |-> "promote", session_id |-> @.session_id,
                       message |-> @.message]]
    /\ UNCHANGED <<pre, last, priority_admitted>>
    /\ UNCHANGED outside_leave

\* _update_positions: user.position = i + 1 for one entry
UpdatePosition ==
    /\ threads["loop"].pc = "positions"
    /\ threads["loop"].i <= Len(queue_manager.waiting_users)
    /\ queue_manager' =
          [queue_manager EXCEPT !.waiting_users[threads["loop"].i].position =
              threads["loop"].i]
    /\ threads' = [threads EXCEPT !["loop"].i = @ + 1]
    /\ UNCHANGED <<pre, last, priority_admitted>>
    /\ UNCHANGED outside_leave

\* _update_positions is through and leave_queue returns
LeaveReturn ==
    /\ threads["loop"].pc = "positions"
    /\ threads["loop"].i > Len(queue_manager.waiting_users)
    /\ threads' = [threads EXCEPT !["loop"] = Idle]
    /\ last' = [op |-> "leave_queue",
                arg |-> [session_id |-> threads["loop"].session_id],
                ret |-> [success |-> TRUE, message |-> threads["loop"].message],
                notify |-> TRUE]
    /\ priority_admitted' = priority_admitted \cap Ids(queue_manager.active_users)
    /\ UNCHANGED <<queue_manager, pre>>
    /\ UNCHANGED outside_leave

\* GET /api/queue/status on a pool thread
GetQueueStatus ==
    /\ last' = [op |-> "get_queue_state",
                ret |-> get_queue_state(queue_manager),
                whole |-> {get_queue_state(self) : self \in WholeStates}]
    /\ UNCHANGED <<queue_manager, pre, priority_admitted, threads>>
    /\ UNCHANGED outside_leave

\* GET /api/queue/my-status/{session_id} on a pool thread
GetMyQueueStatus ==
    \E session_id \in Sessions :
        /\ last' = [op |-> "get_user_status", arg |-> [session_id |-> session_id],
                    ret |-> get_user_status(queue_manager, session_id),
                    whole |-> {get_user_status(self, session_id) :
                                  self \in WholeStates}]
        /\ UNCHANGED <<queue_manager, pre, priority_admitted, threads>>
        /\ UNCHANGED outside_leave

NextObserve ==
    \/ ObserveConfigure
    \/ ObserveJoinQueue
    \/ LeavePop
    \/ PromotePop
    \/ PromoteAppend
    \/ UpdatePosition
    \/ LeaveReturn
    \/ GetQueueStatus
    \/ GetMyQueueStatus

\* the queue under leave_queue in steps and readers on pool threads
SpecObserve == Init /\ [][NextObserve]_vars

(***************************************************************************)
(* The reverse proxy, main.py proxy_to_target.  The configuration record   *)
(* is read from the database on every request and is an input here; an     *)
(* absent column value (None) is the empty set, a present one a singleton. *)
(***************************************************************************)
\* the session strings clients of the proxy present as bb_session_id cookie
ProxySessions == {"S1", "S2"}

\* db.query(ProjectConfig).first(): no row, or the row's columns
NoConfig == [present |-> FALSE]
Configs ==
    {NoConfig} \cup
    [present : {TRUE},
     port : {None, Some(DefaultPort)},
     queue_enabled : BOOLEAN,
     max_concurrent_users : {None, Some(MaxCap)},
     prioritize_localhost : {None, Some(FALSE)}]

Loopback == {"127.0.0.1", "localhost", "::1"}

\* Where requests come from: request.client.host and the X-Forwarded-For
\* header split at the commas (<<>> when absent).  A browser on the machine, a
\* machine on the LAN, and a remote client behind a tunnel agent, which
\* connects from the loopback address.
Origins ==
    {[client_ip |-> "127.0.0.1", forwarded_for |-> <<>>],
     [client_ip |-> "192.168.1.20", forwarded_for |-> <<>>],
     [client_ip |-> "127.0.0.1", forwarded_for |-> <<"198.51.100.9", "127.0.0.1">>]}

\* what requests.request does: a response, or one of the exceptions handled
TargetOutcomes == {"response", "ConnectionError", "Timeout", "Exception"}

JSONResponse(status_code, error) ==
    [status_code |-> status_code, content |-> error, set_cookie |-> NoSession,
     outbound |-> "none"]

\* the real client: the first X-Forwarded-For element if present, else the peer
RealClientIsLocalhost(client_ip, forwarded_for) ==
    IF Len(forwarded_for) > 0
    THEN forwarded_for[1] \in Loopback
    ELSE client_ip \in Loopback

\* a plausible slip: the waiting room is served only to sessions it just queued
MustWait_newonly(queue_result) == queue_result.message = "Added to queue"

\* the test that sends a request to the waiting room
MustWait(queue_result) == queue_result.status # "active"

\* The handler up to the point where it either answers itself or forwards:
\* configure, the session cookie, join_queue and heartbeat.
\* [self, session_id, new_session, queue_result, answer], answer being
\* "no_config", "waiting" or "forward".
ProxyAdmission(self, config, cookie, client_ip, forwarded_for, uuid, t) ==
    IF ~config.present
    THEN [self |-> self, session_id |-> NoSession, new_session |-> FALSE,
          queue_result |-> [none |-> TRUE], answer |-> "no_config"]
    ELSE
    LET max_concurrent ==
            IF config.max_concurrent_users = None \/ Get(config.max_concurrent_users) = 0
            THEN 1 ELSE Get(config.max_concurrent_users)
        prioritize_localhost ==
            IF config.prioritize_localhost # None
            THEN Get(config.prioritize_localhost) ELSE TRUE
        configured == configure(self, max_concurrent, prioritize_localhost).self
        is_localhost == RealClientIsLocalhost(client_ip, forwarded_for)
        new_session == cookie = NoSession
        session_id == IF new_session THEN uuid ELSE cookie
        joined == join_queue(configured, session_id, is_localhost, NoSession, t)
    IN  IF ~config.queue_enabled
        THEN [self |-> configured, session_id |-> session_id,
              new_session |-> new_session, queue_result |-> [none |-> TRUE],
              answer |-> "forward"]
        ELSE IF MustWait(joined.ret)
        THEN [self |-> joined.self, session_id |-> session_id,
              new_session |-> new_session, queue_result |-> joined.ret,
              answer |-> "waiting"]
        ELSE [self |-> heartbeat(joined.self, session_id, t).self,
              session_id |-> session_id, new_session |-> new_session,
              queue_result |-> joined.ret, answer |-> "forward"]

\* The response, given what the handler's environment does: whether
\* static/waiting_room.html can be opened, and the outcome of the request to
\* the target.  outbound tells whether requests.request was called with a
\* target URL ("sent"), with a URL it cannot parse ("invalid_url"), or not.
ProxyResponse(adm, config, waiting_room_exists, outcome) ==
    IF adm.answer = "no_config"
    THEN JSONResponse(503, "No project configured")
    ELSE IF adm.answer = "waiting"
    THEN IF waiting_room_exists
         THEN [status_code |-> 200, content |-> "waiting_room.html",
               set_cookie |-> adm.session_id, outbound |-> "none"]
         ELSE JSONResponse(503, "Waiting room not available")
    ELSE IF config.port = None
    THEN [JSONResponse(502, "Bad Gateway") EXCEPT !.outbound = "invalid_url"]
    ELSE IF outcome = "response"
    THEN [status_code |-> 200, content |-> "target response",
          set_cookie |-> IF adm.new_session THEN adm.session_id ELSE NoSession,
          outbound |-> "sent"]
    ELSE IF outcome = "ConnectionError"
    THEN [JSONResponse(502, "Target application not responding")
            EXCEPT !.outbound = "sent"]
    ELSE IF outcome = "Timeout"
    THEN [JSONResponse(504, "Target application timeout") EXCEPT !.outbound = "sent"]
    ELSE [JSONResponse(502, "Bad Gateway") EXCEPT !.outbound = "sent"]

\* config.port as the handler reads it; no row has no port
TargetPort(config) == IF config.present THEN config.port ELSE None

\* the values uuid.uuid4() can yield in the handler
ProxyUuid4(self, cookie) ==
    IF cookie = NoSession THEN ProxySessions \ Known(self) ELSE {NoSession}

ProxyToTarget ==
    \E config \in Configs, cookie \in ProxySessions \cup {NoSession},
       origin \in Origins :
      \E uuid \in ProxyUuid4(queue_manager, cookie) :
        \E adm \in {ProxyAdmission(queue_manager, config, cookie, origin.client_ip,
                                   origin.forwarded_for, uuid, now)} :
          \E waiting_room_exists \in
                    IF adm.answer = "waiting" THEN BOOLEAN ELSE {TRUE},
             outcome \in
                    IF adm.answer = "forward" /\ config.port # None
                    THEN TargetOutcomes ELSE {"none"} :
              /\ pre' = queue_manager
              /\ queue_manager' = adm.self
              /\ last' = [op |-> "proxy_to_target",
                          arg |-> [cookie |-> cookie,
                                   queue_enabled |-> config.present /\ config.queue_enabled,
                                   target_port |-> TargetPort(config)],
                          session_id |-> adm.session_id,
                          queue_result |-> adm.queue_result,
                          ret |-> ProxyResponse(adm, config, waiting_room_exists, outcome)]
              /\ priority_admitted' =
                    (priority_admitted \cup
                        IF adm.answer # "no_config" /\ config.queue_enabled
                              /\ adm.queue_result.message = "Localhost priority access granted"
                        THEN {adm.session_id} ELSE {})
                    \cap Ids(adm.self.active_users)
              /\ UNCHANGED now
              /\ UNCHANGED outside_queue

\* The proxy and the sessions that leave; the clock stands still, since no
\* answer of the handler depends on it.
NextProxy ==
    \/ ProxyToTarget
    \/ LeaveQueue

SpecProxy == Init /\ [][NextProxy]_vars

(***************************************************************************)
(* Properties of the admission controller, checked under Spec.             *)
(* A, W are the lists after the last call, PA, PW the lists before it.     *)
(***************************************************************************)
A == queue_manager.active_users
W == queue_manager.waiting_users
PA == pre.active_users
PW == pre.waiting_users

\* the session strings of a list, in list order
IdSeq(users) == [i \in 1..Len(users) |-> users[i].session_id]

\* the last call was join_queue for a session in neither list
JoinedUnknown ==
    /\ last.op = "join_queue"
    /\ last.ret.session_id \notin Known(pre)

\* C1: no session id is in both the active-set and the waiting-list, and no
\* session id occurs twice inside either list.
C1_NoDuplicateSessions ==
    /\ Ids(A) \cap Ids(W) = {}
    /\ Cardinality(Ids(A)) = Len(A)
    /\ Cardinality(Ids(W)) = Len(W)

\* a known session joined again while both lists are populated
C1_Witness ==
    /\ last.op = "join_queue"
    /\ last.ret.session_id \in Known(pre)
    /\ Len(A) >= 1
    /\ Len(W) >= 2

\* C2 as stated: the size of the active-set is at most max(cap, number of
\* active entries admitted through localhost priority).
C2_Original ==
    Len(A) <= Max(queue_manager.max_concurrent, Cardinality(priority_admitted))

\* C2 as amended: no call leaves the active-set larger than max(cap, its size
\* before the call), except a join admitted through localhost priority, which
\* makes it exactly one larger.
C2_ActiveBound ==
    /\ priority_admitted \subseteq Ids(A)
    /\ IF last.op = "join_queue" /\ JoinedUnknown
          /\ last.arg.is_localhost /\ pre.prioritize_localhost
       THEN Len(A) = Len(PA) + 1 /\ last.ret.session_id \in priority_admitted
       ELSE Len(A) <= Max(queue_manager.max_concurrent, Len(PA))

\* the active-set is above the cap after a localhost priority join, and stays
\* there through a later call
C2_Witness ==
    /\ priority_admitted # {}
    /\ Len(A) > queue_manager.max_concurrent
    /\ last.op = "leave_queue"
    /\ last.arg.session_id \in Ids(PW)

\* C3: the stored positions of the waiting-list, in list order, are 1..N and
\* every active entry has position 0.
C3_Positions ==
    /\ \A i \in 1..Len(W) : W[i].position = i
    /\ \A i \in 1..Len(A) : A[i].position = 0

\* a waiting session other than the tail left, so the ones behind it moved up
C3_Witness ==
    /\ last.op = "leave_queue"
    /\ last.ret.message = "Removed from queue"
    /\ Len(PW) >= 2
    /\ PW[Len(PW)].session_id # last.arg.session_id

\* C4: promotion is FIFO.  For a ahead of b in the waiting-list before a call:
\* if b is active after it then a is not waiting any more (and, if still
\* known, was appended to the active-set before b); if both still wait, a is
\* still ahead of b; and a session new to the waiting-list is at its tail.
C4_FifoPromotion ==
    /\ \A i, j \in 1..Len(PW) :
          i < j =>
            LET a == PW[i].session_id
                b == PW[j].session_id
            IN  /\ (b \in Ids(A) /\ a \in Known(queue_manager)) =>
                      /\ a \in Ids(A)
                      /\ IndexOf(A, a) < IndexOf(A, b)
                /\ (a \in Ids(W) /\ b \in Ids(W)) => IndexOf(W, a) < IndexOf(W, b)
    /\ \A k \in 1..Len(W) : W[k].session_id \notin Ids(PW) => k = Len(W)

\* the head of a waiting-list of two or more was promoted, the next still waits
C4_Witness ==
    /\ Len(PW) >= 2
    /\ PW[1].session_id \in Ids(A)
    /\ PW[2].session_id \in Ids(W)

\* the last call was check_timeouts with cap 1, S1 the one active entry, not
\* refreshed within the timeout, and S2 at the head of the waiting-list
C6_Scenario ==
    /\ last.op = "check_timeouts"
    /\ pre.max_concurrent = 1
    /\ Len(PA) = 1
    /\ Len(PW) >= 1
    /\ now - PA[1].last_heartbeat > pre.heartbeat_timeout

\* C6 as stated: S1 and S2 join, 31 seconds pass without any heartbeat, reap
\* runs: S1 is evicted and S2 is in the active-set.
C6_Original ==
    (/\ C6_Scenario
     /\ PA[1].last_heartbeat = PA[1].joined_at
     /\ PW[1].last_heartbeat = PW[1].joined_at
     /\ now - PW[1].joined_at >= pre.heartbeat_timeout + 1)
    => /\ PA[1].session_id \notin Known(queue_manager)
       /\ PW[1].session_id \in Ids(A)

\* C6 as amended: S1 is evicted; S2 is in the active-set afterwards if its own
\* last heartbeat is within the timeout, and is evicted as well if it is not.
C6_ReapScenario ==
    C6_Scenario =>
        /\ PA[1].session_id \notin Known(queue_manager)
        /\ IF now - PW[1].last_heartbeat > pre.heartbeat_timeout
           THEN PW[1].session_id \notin Known(queue_manager)
           ELSE /\ Len(A) = 1
                /\ A[1] = [PW[1] EXCEPT !.is_active = TRUE, !.position = 0]

\* reap evicted a stale S1 and promoted an S2 that had kept its heartbeat fresh
C6_Witness ==
    /\ C6_Scenario
    /\ now - PW[1].last_heartbeat <= pre.heartbeat_timeout
    /\ PW[1].session_id \in Ids(A)

\* the last call was leave_queue for an active session, with sessions waiting
C7_LeftActive ==
    /\ last.op = "leave_queue"
    /\ last.arg.session_id \in Ids(PA)
    /\ Len(PW) > 0

\* C7 as stated: whenever leave removes a session from the active-set and the
\* waiting-list is non-empty, the former head of the waiting-list is active
\* with position 0 and the remaining waiting positions are renumbered.
C7_Original ==
    C7_LeftActive =>
        /\ \E i \in 1..Len(A) :
              A[i].session_id = PW[1].session_id /\ A[i].position = 0
        /\ \A i \in 1..Len(W) : W[i].position = i

\* C7 as amended: the head is promoted when the active-set, after the removal,
\* is smaller than the cap; otherwise nobody is promoted.
C7_LeavePromotes ==
    C7_LeftActive =>
        /\ \A i \in 1..Len(W) : W[i].position = i
        /\ IF Len(PA) - 1 < pre.max_concurrent
           THEN /\ \E i \in 1..Len(A) :
                      A[i] = [PW[1] EXCEPT !.is_active = TRUE, !.position = 0]
                /\ PW[1].session_id \notin Ids(W)
           ELSE /\ IdSeq(W) = IdSeq(PW)
                /\ Len(A) = Len(PA) - 1

\* an active session left, the head was promoted and somebody still waits
C7_Witness ==
    /\ C7_LeftActive
    /\ PW[1].session_id \in Ids(A)
    /\ Len(W) >= 1

\* C8: a join by a session in neither list, with is_localhost true while
\* localhost priority is on, puts the session in the active-set and returns
\* active with position 0 whatever the size of the active-set and the cap; a
\* non-localhost join by a session in neither list at or above the cap goes to
\* the waiting-list.
C8_LocalhostBypass ==
    JoinedUnknown =>
        /\ (last.arg.is_localhost /\ pre.prioritize_localhost) =>
              /\ last.ret.status = "active"
              /\ last.ret.position = 0
              /\ Len(A) = Len(PA) + 1
              /\ A[Len(A)].session_id = last.ret.session_id
              /\ A[Len(A)].position = 0
              /\ W = PW
        /\ (~last.arg.is_localhost /\ Len(PA) >= pre.max_concurrent) =>
              /\ last.ret.status = "waiting"
              /\ last.ret.session_id \in Ids(W)
              /\ A = PA

\* a non-localhost join queued while a session admitted by localhost priority
\* holds the active-set above the cap
C8_Witness ==
    /\ JoinedUnknown
    /\ ~last.arg.is_localhost
    /\ last.ret.status = "waiting"
    /\ priority_admitted # {}
    /\ Len(A) > queue_manager.max_concurrent

\* C9: join for a session already in a list returns active/position 0 or
\* waiting with its current position, and changes nothing.
C9_JoinIdempotent ==
    (last.op = "join_queue" /\ last.ret.session_id \in Known(pre)) =>
        LET sid == last.ret.session_id
        IN  /\ queue_manager = pre
            /\ sid \in Ids(PA) => (last.ret.status = "active" /\ last.ret.position = 0)
            /\ sid \in Ids(PW) =>
                  /\ last.ret.status = "waiting"
                  /\ last.ret.position = PW[IndexOf(PW, sid)].position

\* a session waiting second in line joined again, later than its first join
C9_Witness ==
    /\ last.op = "join_queue"
    /\ last.ret.session_id \in Ids(PW)
    /\ last.ret.position = 2
    /\ now > PW[2].last_heartbeat

\* C10: a join by a session in neither list that does not qualify for
\* localhost priority is admitted to the active-set iff the active-set is
\* smaller than the cap; otherwise it is appended at the tail of the
\* waiting-list and the returned position is the previous length plus one.
C10_JoinByCapacity ==
    (JoinedUnknown /\ ~(last.arg.is_localhost /\ pre.prioritize_localhost)) =>
        LET sid == last.ret.session_id
            loc == last.arg.is_localhost
        IN  IF Len(PA) < pre.max_concurrent
            THEN /\ last.ret.status = "active"
                 /\ last.ret.position = 0
                 /\ A = Append(PA, QueueUser(sid, now, now, 0, TRUE, loc))
                 /\ W = PW
            ELSE /\ last.ret.status = "waiting"
                 /\ last.ret.position = Len(PW) + 1
                 /\ W = Append(PW, QueueUser(sid, now, now, Len(PW) + 1, FALSE, loc))
                 /\ A = PA

\* a localhost session without priority queued behind another at a full pool
C10_Witness ==
    /\ JoinedUnknown
    /\ last.arg.is_localhost
    /\ last.ret.status = "waiting"
    /\ last.ret.position = 2

\* the entries of both lists
Entries(self) ==
    {self.active_users[i] : i \in 1..Len(self.active_users)}
        \cup {self.waiting_users[i] : i \in 1..Len(self.waiting_users)}

\* the last call was heartbeat for a session in one of the lists
C11_HeartbeatKnown ==
    /\ last.op = "heartbeat"
    /\ last.arg.session_id \in Known(pre)

\* C11: heartbeat(s) changes nothing except the last_heartbeat of s, which
\* becomes now: both lists keep their members, order and positions and every
\* other field of every entry, the parameters are untouched, and the returned
\* status and position are the session's own.
C11_HeartbeatFrame ==
    C11_HeartbeatKnown =>
        LET sid == last.arg.session_id
            Refreshed(users) ==
                [i \in 1..Len(users) |->
                    IF users[i].session_id = sid
                    THEN [users[i] EXCEPT !.last_heartbeat = now]
                    ELSE users[i]]
        IN  /\ queue_manager = [pre EXCEPT !.active_users = Refreshed(PA),
                                           !.waiting_users = Refreshed(PW)]
            /\ last.ret.success
            /\ sid \in Ids(A) => (last.ret.status = "active" /\ last.ret.position = 0)
            /\ sid \in Ids(W) =>
                  /\ last.ret.status = "waiting"
                  /\ last.ret.position = W[IndexOf(W, sid)].position
                  /\ last.ret.position = IndexOf(W, sid)

\* a session waiting behind another sent a heartbeat, later than its last one,
\* while the active pool had a free slot
C11_Witness ==
    /\ C11_HeartbeatKnown
    /\ last.ret.status = "waiting"
    /\ last.ret.position = 2
    /\ now > PW[2].last_heartbeat
    /\ Len(PA) < pre.max_concurrent

\* the last call was leave_queue or heartbeat for a session in neither list
C12_UnknownSession ==
    /\ last.op \in {"leave_queue", "heartbeat"}
    /\ last.arg.session_id \notin Known(pre)

\* C12: leave and heartbeat for a session in neither list return a result with
\* success false and leave the whole object as it was.
C12_NotFoundBenign ==
    C12_UnknownSession =>
        /\ last.ret.success = FALSE
        /\ last.ret.message = "Session not found"
        /\ ~last.notify
        /\ queue_manager = pre

\* an unknown session left while somebody waited and the pool had a free slot
C12_Witness ==
    /\ C12_UnknownSession
    /\ last.op = "leave_queue"
    /\ Len(PW) >= 1
    /\ Len(PA) < pre.max_concurrent

\* C14: configure changes the two parameters and nothing else: the stored cap
\* is max(1, the cap given), at least 1, and both lists are as they were, also
\* when the new cap is below the size of the active-set.
C14_ConfigureFrame ==
    /\ queue_manager.max_concurrent >= 1
    /\ last.op = "configure" =>
          /\ queue_manager =
                [pre EXCEPT !.max_concurrent = Max(1, last.arg.max_concurrent),
                            !.prioritize_localhost = last.arg.prioritize_localhost]
          /\ A = PA
          /\ W = PW

\* the cap was brought below the size of the active-set while somebody waited
C14_Witness ==
    /\ last.op = "configure"
    /\ queue_manager.max_concurrent < Len(PA)
    /\ queue_manager.max_concurrent < pre.max_concurrent
    /\ Len(PW) >= 1

(***************************************************************************)
(* Properties of check_timeouts at the boundary, checked under SpecReap.   *)
(***************************************************************************)

\* C13: check_timeouts evicts exactly the entries whose last_heartbeat is
\* older than now minus heartbeat_timeout: none of those is in a list after
\* the call, every other entry still is, so no entry left has timed out and an
\* entry refreshed within the timeout is never evicted.
C13_ReapExactlyZombies ==
    last.op = "check_timeouts" =>
        /\ \A e \in Entries(pre) :
              e.session_id \in Known(queue_manager)
                 <=> now - e.last_heartbeat <= pre.heartbeat_timeout
        /\ \A e \in Entries(queue_manager) :
              /\ now - e.last_heartbeat <= queue_manager.heartbeat_timeout
              /\ \E p \in Entries(pre) :
                    /\ p.session_id = e.session_id
                    /\ p.last_heartbeat = e.last_heartbeat

\* reap kept an entry exactly heartbeat_timeout old and evicted an older one
C13_Witness ==
    /\ last.op = "check_timeouts"
    /\ \E e \in Entries(pre) :
          /\ now - e.last_heartbeat = pre.heartbeat_timeout
          /\ e.session_id \in Known(queue_manager)
    /\ \E e \in Entries(pre) :
          /\ now - e.last_heartbeat > pre.heartbeat_timeout
          /\ e.session_id \notin Known(queue_manager)

(***************************************************************************)
(* Properties of the reverse proxy, checked under SpecProxy.               *)
(***************************************************************************)

\* C5: with the queue enabled, a proxied request whose admission decision from
\* join is waiting is never forwarded: the handler answers with the
\* waiting-room page or an error and issues no outbound request.
C5_WaitingNeverForwarded ==
    (/\ last.op = "proxy_to_target"
     /\ last.arg.queue_enabled
     /\ last.queue_result.status = "waiting")
    => /\ last.ret.outbound = "none"
       /\ \/ (last.ret.status_code = 200 /\ last.ret.content = "waiting_room.html")
          \/ (last.ret.status_code = 503 /\ last.ret.content = "Waiting room not available")

\* a request of a session that was already waiting was answered with the page
C5_Witness ==
    /\ last.op = "proxy_to_target"
    /\ last.arg.queue_enabled
    /\ last.queue_result.status = "waiting"
    /\ last.queue_result.message = "Already in queue"
    /\ last.ret.content = "waiting_room.html"

\* C21 as stated: a proxied request made while the configuration has no
\* target port (no record, or a record whose port is absent) is answered with
\* 503 and no outbound request to a target is attempted (a call of
\* requests.request that fails on its URL reaches no target).
C21_Original ==
    (last.op = "proxy_to_target" /\ last.arg.target_port = None) =>
        /\ last.ret.status_code = 503
        /\ last.ret.outbound # "sent"

\* C22 as stated: whenever a proxied request arrives without a bb_session_id
\* cookie and a session is minted, the response to that request carries the
\* minted session as its cookie, on every response path.
C22_Original ==
    (/\ last.op = "proxy_to_target"
     /\ last.arg.cookie = NoSession
     /\ last.session_id # NoSession)
    => last.ret.set_cookie = last.session_id

(***************************************************************************)
(* Properties of the traffic recorder, checked under SpecTraffic.          *)
(***************************************************************************)

\* no thread is inside a with-self._lock block of the recorder: the points at
\* which a reader, which takes the lock itself, can observe it
NoneInside == \A t \in Threads : threads[t].pc \in {"idle", "acquire", "callbacks"}

\* C15: at every observable point total_requests equals the number of
\* log_request calls recorded since the last clear, also when the calls of the
\* event loop and of the pool threads interleave.  A log_request call counts
\* from the moment it leaves its locked block (its callbacks may still be
\* running), a clear from the moment it leaves its own.
C15_TotalRequests ==
    /\ NoneInside => traffic_monitor.total_requests = completed
    /\ last.op = "get_metrics" => last.ret.total_requests = completed

\* a clear on a pool thread wiped recorded requests and finished while a
\* log_request call of the event loop was under way
C15_Witness ==
    /\ NoneInside
    /\ threads["loop"].pc = "acquire"
    /\ last.op = "clear"
    /\ last.before >= 2

\* C16 as stated: for every integer n, GET /api/traffic/requests?count=n
\* returns at most min(n, cap, ring capacity) records (none when that is
\* below zero), and they are the most recent ones, newest first.
C16_Original ==
    last.op = "get_traffic_requests" =>
        LET n == last.arg.count
            history == last.history
            k == Len(last.ret)
        IN  /\ k <= Max(0, Min(n, Min(RecentCap, MaxHistory)))
            /\ last.ret = Reversed(SubSeq(history, Len(history) - k + 1, Len(history)))

\* a path that begins with the traffic API or the traffic websocket prefix
TrafficPrefixed(path) ==
    \/ (Len(path) >= 2 /\ path[1] = "/api" /\ path[2] = "/traffic")
    \/ (Len(path) >= 2 /\ path[1] = "/ws" /\ path[2] = "/traffic")

\* C17: no request whose path begins with /api/traffic or /ws/traffic is
\* recorded: log_request is not called for it, so it is in no record of the
\* history, in no recent-requests output, and not counted.
C17_TrafficNotRecorded ==
    /\ \A i \in 1..Len(traffic_monitor.request_history) :
          ~TrafficPrefixed(traffic_monitor.request_history[i].path)
    /\ threads["loop"].pc # "idle" => ~TrafficPrefixed(threads["loop"].log_entry.path)
    /\ (last.op = "traffic_monitoring_middleware" /\ TrafficPrefixed(last.arg.path)) =>
          /\ ~last.logged
          /\ threads["loop"].pc = "idle"
    /\ last.op = "get_traffic_requests" =>
          \A i \in 1..Len(last.ret) : ~TrafficPrefixed(last.ret[i].path)

\* a request to the traffic websocket path went through the middleware while
\* the history held records of other requests
C17_Witness ==
    /\ last.op = "traffic_monitoring_middleware"
    /\ last.arg.path = <<"/ws", "/traffic">>
    /\ Len(traffic_monitor.request_history) >= 2
    /\ traffic_monitor.total_requests >= 2

(***************************************************************************)
(* Properties of the websocket endpoints, checked under SpecWebsocket.     *)
(***************************************************************************)

\* C18 as stated: for each of the channels logs, queue and traffic the number
\* of registered sockets never exceeds 10, and a connection attempt made while
\* 10 are registered is closed with code 1013.
C18_Original ==
    /\ \A channel \in Channels : connections[channel] <= MAX_WS_CONNECTIONS
    /\ (last.op = "websocket_connect" /\ last.full) => last.close = 1013

(***************************************************************************)
(* Properties of the supervisors, checked under SpecServer.                *)
(***************************************************************************)

\* C19 as stated: after any call of stop() has returned, whatever the state
\* it was called in, the supervisor holds no backend handle and the next
\* status() reports not running.
C19_Original ==
    (last.op = "control_server" /\ last.arg.action = "stop") =>
        /\ server_manager.process = None
        /\ ~get_status(World).ret.running

\* C23 as stated: start() returns failure and spawns no process whenever the
\* backend process launched by an earlier start() is still running, and the
\* supervisor's handles and its registered log sinks are as they were.
C23_Original ==
    [][(/\ last'.op = "control_server"
        /\ last'.arg.action = "start"
        /\ IsAlive(World, server_manager.process))
       => /\ ~last'.ret.success
          /\ processes'.spawned = processes.spawned
          /\ server_manager'.process = server_manager.process
          /\ server_manager'.frontend_process = server_manager.frontend_process
          /\ server_manager'.log_callbacks = server_manager.log_callbacks
      ]_vars

\* C24 as stated: after stop() returns, no process spawned by the preceding
\* start() is alive and both handles are cleared, whatever the liveness of the
\* backend child when stop() was called.  (Calls in which psutil fails for
\* another reason than that the process is gone are left aside, and so are
\* calls made while no backend handle is held.)
C24_Original ==
    [][(/\ last'.op = "control_server"
        /\ last'.arg.action = "stop"
        /\ server_manager.process # None
        /\ last'.arg.env.outcome \in {"ok", "NoSuchProcess"}
        /\ last'.arg.env.frontend_outcome = "ok") =>
          /\ server_manager'.process = None
          /\ server_manager'.frontend_process = None
          /\ server_manager.process # None =>
                Get(server_manager.process) \notin processes'.alive
          /\ server_manager.frontend_process # None =>
                Get(server_manager.frontend_process) \notin processes'.alive
      ]_vars

\* C25 as stated: no shell command launched by start(), for the backend or
\* for the frontend, contains a forbidden pattern: a start or restart request
\* whose backend command, or whose command for a frontend in a directory of
\* its own, holds one returns failure and spawns nothing.
C25_Original ==
    [][(/\ last'.op = "control_server"
        /\ last'.arg.action \in {"start", "restart"}
        /\ \/ Forbidden(last'.arg.config.command)
           \/ /\ HasFrontend(last'.arg.config)
              /\ ~SameDirectory(last'.arg.config)
              /\ Forbidden(Get(last'.arg.config.frontend_command)))
       => /\ ~last'.ret.success
          /\ processes'.spawned = processes.spawned
      ]_vars

\* C29 as stated: for start and for restart through the control endpoint, no
\* frontend process is spawned when the configured frontend directory equals
\* the backend directory; only the backend is launched.
C29_Original ==
    [][(/\ last'.op = "control_server"
        /\ last'.arg.action \in {"start", "restart"}
        /\ SameDirectory(last'.arg.config))
       => /\ processes'.spawned <= processes.spawned + 1
          /\ server_manager'.frontend_process \in
                {None, server_manager.frontend_process}
      ]_vars

\* the agent process a handle stands for forwards to this port
ForwardsTo(handle, port) ==
    /\ IsAlive(World, handle)
    /\ \E agent \in processes.agents : agent.pid = Get(handle) /\ agent.port = port

C28_Original ==
    [][(/\ last'.op = "control_server"
        /\ last'.arg.action = "restart"
        /\ last'.ret.success)
       => /\ (/\ last'.arg.config.ngrok_enabled
               /\ ~IsAlive(World, network_manager.ngrok_process))
              => /\ network_manager'.ngrok_process # None
                 /\ Get(network_manager'.ngrok_process) > processes.spawned
          /\ (/\ last'.arg.config.cloudflare_enabled
               /\ ~IsAlive(World, network_manager.cloudflare_process))
              => /\ network_manager'.cloudflare_process # None
                 /\ Get(network_manager'.cloudflare_process) > processes.spawned
      ]_vars

\* C26 as stated: a broadcast in which a send could not be delivered removes
\* that subscriber from log_connections, and the other subscribers receive
\* the message.
C26_Original ==
    (/\ last.op = "broadcast_log"
     /\ last.loop = "running"
     /\ last.failed > 0)
    => /\ connections["logs"] = last.subscribers - last.failed
       /\ closed["logs"] = 0
       /\ last.delivered = last.subscribers - last.failed

\* the sessions ahead of session_id in a waiting-list
Ahead(users, session_id) ==
    {users[i].session_id : i \in 1..(IndexOf(users, session_id) - 1)}

\* C30: a session that was in the waiting-list before a call and is in the
\* active list after it was moved by leave_queue or check_timeouts, and no
\* session that stood ahead of it is still waiting; join_queue (with
\* is_localhost and the priority on or not), heartbeat and configure move no
\* waiting session; and no session of the active list is in the waiting-list
\* after a call.
C30_SessionStateMachine ==
    /\ \A session_id \in Ids(pre.waiting_users) \cap Ids(queue_manager.active_users) :
          /\ last.op \in {"leave_queue", "check_timeouts"}
          /\ Ahead(pre.waiting_users, session_id) \cap Ids(queue_manager.waiting_users) = {}
    /\ Ids(pre.active_users) \cap Ids(queue_manager.waiting_users) = {}
    /\ last.op \in {"join_queue", "heartbeat", "configure"} =>
          Ids(pre.waiting_users) \subseteq Ids(queue_manager.waiting_users)

\* a waiting session joins again from localhost while the priority is on, with
\* room in the active list, and is still waiting
C30_Witness ==
    /\ last.op = "join_queue"
    /\ last.arg.is_localhost
    /\ pre.prioritize_localhost
    /\ Len(pre.active_users) < pre.max_concurrent
    /\ last.arg.session_id \in Ids(pre.waiting_users)
    /\ last.arg.session_id \in Ids(queue_manager.waiting_users)
    /\ last.ret.status = "waiting"

\* C33: a start of a tunnel whose agent is alive and whose URL is known
\* returns success with that URL, spawns nothing and leaves the tunnel
\* supervisor and the processes as they were.
C33_StartIdempotent ==
    [][/\ (/\ last'.op = "control_ngrok"
            /\ last'.arg.action = "start"
            /\ Truthy(last'.arg.port)
            /\ IsAlive(World, network_manager.ngrok_process)
            /\ network_manager.ngrok_url # None)
           => /\ last'.ret.success
              /\ last'.ret.url = network_manager.ngrok_url
              /\ network_manager' = network_manager
              /\ processes' = processes
       /\ (/\ last'.op = "control_cloudflare"
            /\ last'.arg.action = "start"
            /\ Truthy(last'.arg.port)
            /\ IsAlive(World, network_manager.cloudflare_process)
            /\ network_manager.cloudflare_url # None)
           => /\ last'.ret.success
              /\ last'.ret.url = network_manager.cloudflare_url
              /\ network_manager' = network_manager
              /\ processes' = processes
      ]_vars

\* a start found its tunnel running and answered with the URL it has
C33_Witness ==
    /\ last.op = "control_ngrok"
    /\ last.arg.action = "start"
    /\ last.ret.message = "ngrok already running"
    /\ last.ret.url = network_manager.ngrok_url
    /\ IsAlive(World, network_manager.ngrok_process)
    /\ IsAlive(World, network_manager.cloudflare_process)
    /\ network_manager.cloudflare_url # None

\* the ngrok agents spawned by start_ngrok that are alive
NgrokAgents == {agent \in processes.agents : agent.program = "ngrok"}

\* C39 as stated: at most one ngrok agent spawned by the tunnel supervisor
\* is alive.
C39_Original == Cardinality(NgrokAgents) <= 1

\* C40 as stated, at the call the claim names: after a start of a tunnel that
\* read the queue-enabled flag as set and answered success, the agent of that
\* tunnel is running and forwards to the admin port.
C40_Original ==
    /\ (/\ last.op = "control_ngrok"
         /\ last.arg.action = "start"
         /\ Truthy(last.arg.port)
         /\ last.arg.queue_enabled
         /\ last.ret.success)
        => ForwardsTo(network_manager.ngrok_process, AdminPort)
    /\ (/\ last.op = "control_cloudflare"
         /\ last.arg.action = "start"
         /\ Truthy(last.arg.port)
         /\ last.arg.queue_enabled
         /\ last.ret.success)
        => ForwardsTo(network_manager.cloudflare_process, AdminPort)

\* C34: the active entry of a session that was waiting before the call is its
\* waiting entry with is_active set and position 0 (last_heartbeat and
\* joined_at as they were); and check_timeouts leaves no active entry older
\* than the timeout, promoted or not.
C34_PromotionKeepsHeartbeat ==
    /\ \A i \in 1..Len(PW) :
          PW[i].session_id \in Ids(A) =>
              \E j \in 1..Len(A) :
                  A[j] = [PW[i] EXCEPT !.is_active = TRUE, !.position = 0]
    /\ last.op = "check_timeouts" =>
          \A j \in 1..Len(A) :
              ~(A[j].last_heartbeat < now - queue_manager.heartbeat_timeout)

\* a leave promoted a session whose heartbeat was already older than the
\* timeout: its active entry carries that heartbeat
C34_Witness ==
    /\ last.op = "leave_queue"
    /\ \E i \in 1..Len(PW), j \in 1..Len(A) :
          /\ A[j].session_id = PW[i].session_id
          /\ A[j].last_heartbeat = PW[i].last_heartbeat
          /\ A[j].last_heartbeat < now - queue_manager.heartbeat_timeout

\* C35 as stated: after every public operation of the queue, a non-empty
\* waiting-list means the active list holds at least max_concurrent sessions.
C35_Original ==
    (/\ last.op \in {"join_queue", "heartbeat", "leave_queue", "check_timeouts",
                     "configure"}
     /\ Len(W) > 0)
    => Len(A) >= queue_manager.max_concurrent

\* C36 as stated: a join by a session in neither list that does not qualify
\* for localhost priority, made while somebody waits, is not admitted to the
\* active list: it is appended to the waiting-list.
C36_Original ==
    (/\ last.op = "join_queue"
     /\ last.ret.session_id \notin Ids(PA) \cup Ids(PW)
     /\ ~(last.arg.is_localhost /\ pre.prioritize_localhost)
     /\ Len(PW) > 0)
    => /\ last.ret.status = "waiting"
       /\ last.ret.session_id \notin Ids(A)
       /\ Len(W) = Len(PW) + 1
       /\ W[Len(W)].session_id = last.ret.session_id

\* C37 as stated: the end of a log stream, while the supervisor is running
\* and the backend process it records is alive, leaves is_running set.
C37_Original ==
    [][(/\ last'.op = "_stream_logs"
        /\ server_manager.is_running
        /\ IsAlive(World, server_manager.process))
       => server_manager'.is_running
      ]_vars

\* the callbacks _stream_logs calls for a line of the backend
Sinks(callbacks) == {callbacks[i] : i \in 1..Len(callbacks)}

\* C38 as stated: after a restart through the control endpoint succeeded
\* while the log sink was registered, the sink is still among the callbacks
\* called for each line of the new backend.
C38_Original ==
    [][(/\ last'.op = "control_server"
        /\ last'.arg.action = "restart"
        /\ last'.ret.success
        /\ BroadcastLog \in Sinks(server_manager.log_callbacks))
       => BroadcastLog \in Sinks(server_manager'.log_callbacks)
      ]_vars

\* C32: what get_metrics and get_endpoint_stats return, with log_request
\* and clear running on other threads, is the record of the requests logged
\* since the last clear: the counts of the endpoints add up to the number of
\* requests, their errors to the number of requests with a status of 400 or
\* more, and the totals get_metrics reads are these two numbers; and whenever
\* nobody holds the lock the totals and the endpoint entries agree.
C32_ViewsConsistent ==
    /\ last.op = "get_endpoint_stats" =>
          /\ SumCount(last.ret) = completed
          /\ SumErrors(last.ret) = completed_errors
    /\ last.op = "get_metrics" =>
          /\ last.ret.total_requests = completed
          /\ last.total_errors = completed_errors
    /\ traffic_monitor._lock = Unlocked =>
          /\ SumCount(traffic_monitor.endpoint_stats) = traffic_monitor.total_requests
          /\ SumErrors(traffic_monitor.endpoint_stats) = traffic_monitor.total_errors
          /\ traffic_monitor.total_errors = completed_errors

\* the endpoint view was read, with errors on record over two endpoints,
\* while log_request on the event loop waits for the lock a clear holds
C32_Witness ==
    /\ last.op = "get_endpoint_stats"
    /\ Len(last.ret) = 2
    /\ SumErrors(last.ret) >= 1
    /\ SumCount(last.ret) > SumErrors(last.ret)
    /\ threads["loop"].pc = "acquire"
    /\ traffic_monitor._lock \in Workers

\* C31 as stated: what a status read returns is what it would return on the
\* queue as a whole number of completed operations leave it.
C31_Original ==
    last.op \in {"get_queue_state", "get_user_status"} => last.ret \in last.whole

\* leave_queue in steps ends where leave_queue as one call ends
LeaveInSteps ==
    (last.op = "leave_queue" /\ threads["loop"] = Idle) =>
        queue_manager = leave_queue(pre, last.arg.session_id).self

\* C20: a stop or restart of the process supervisor never stops a tunnel: a
\* tunnel handle whose process is alive before the call is the same handle
\* after it, its process is still alive and its URL is unchanged.
C20_TunnelsSurvive ==
    [][(last'.op = "control_server" /\ last'.arg.action \in {"stop", "restart"}) =>
          /\ IsAlive(World, network_manager.ngrok_process) =>
                /\ network_manager'.ngrok_process = network_manager.ngrok_process
                /\ network_manager'.ngrok_url = network_manager.ngrok_url
                /\ Get(network_manager.ngrok_process) \in processes'.alive
          /\ IsAlive(World, network_manager.cloudflare_process) =>
                /\ network_manager'.cloudflare_process = network_manager.cloudflare_process
                /\ network_manager'.cloudflare_url = network_manager.cloudflare_url
                /\ Get(network_manager.cloudflare_process) \in processes'.alive
      ]_vars

\* a restart with ngrok enabled succeeded; the ngrok agent, started before the
\* backend the restart launched, is still the handle, alive, with its URL
C20_Witness ==
    /\ last.op = "control_server"
    /\ last.arg.action = "restart"
    /\ last.arg.config.ngrok_enabled
    /\ last.ret.success
    /\ IsAlive(World, server_manager.process)
    /\ IsAlive(World, network_manager.ngrok_process)
    /\ network_manager.ngrok_url = network_manager.ngrok_process
    /\ Get(network_manager.ngrok_process) < Get(server_manager.process)

====
